---- MODULE Spec2Model ----
(***************************************************************************)
(* The delegated-authentication broker of the MCP server: the secondary    *)
(* (Microsoft) OAuth handlers and token cache of microsoft-handler.ts      *)
(* (src/unnamed/part_002) and the primary (GitHub) callback of             *)
(* github-handler.ts (src/unnamed/part_001).                               *)
(*                                                                         *)
(* A handler is an async function: it runs without interruption between    *)
(* two awaits, and other requests run while it waits.  Each request        *)
(* occupies a slot of req; one action is one resumption of the handler,    *)
(* from the await that has just resolved up to the next await or the       *)
(* return.  Strings of the program are strings here; an absent (undefined) *)
(* value is the string Undefined, an absent record the record NoValue.     *)
(***************************************************************************)
EXTENDS Integers, Sequences, FiniteSets, TLC

\* ------------------------------------------------------------ bounds
MaxTicks == 1
MaxGrants == 2
MaxNonce == 1
MaxThoughts == 3

\* ------------------------------------------------- program constants
RefreshMarginMs == 300000
StateTtlSec == 600
MsPerSec == 1000
TokenTtlSec == 90 * 24 * 60 * 60

\* ------------------------------------------------------------ inputs
Owners == {"alice", "bob"}
Undefined == "undefined"
NoValue == [absent |-> TRUE]
\* !x for a string that may be undefined.
Falsy(x) == x = Undefined \/ x = ""
\* expires_in values (seconds) a provider's token response may carry
ExpiresIn == {0, 300}
\* the clock step of the token-cache specification
TickMs == RefreshMarginMs \div 3
Slots == {1, 2}
Profile == "graph-profile"

AccessTok(n) == "at" \o ToString(n)
RefreshTok(n) == "rt" \o ToString(n)
Nonce(n) == "state" \o ToString(n)
NonceIds == {Nonce(n) : n \in 1 .. MaxNonce}

VARIABLES
  now,        \* Date.now(), ms
  msTokens,   \* OAUTH_KV entries ms_tokens:<userId>
  msState,    \* OAUTH_KV entries ms_oauth_state:<state>
  req,        \* the requests and calls in progress, one per slot
  grants,     \* token responses the provider has issued so far
  nonces,     \* states generated by GET /microsoft/authorize so far
  consumed,   \* states a callback has read and deleted
  served,     \* the response of a handler that has answered in one step
  env,        \* the secrets among the Worker's bindings (c.env)
  thinking    \* the SequentialThinkingState of the MCP agent

vars == <<now, msTokens, msState, req, grants, nonces, consumed, served, env, thinking>>

\* sequential-thinking-tool.ts lines 18-21: the two Maps of a new
\* SequentialThinkingState, both empty.  A Map is the function from its keys
\* to their values.
EmptyMap == <<>>
NewSequentialThinkingState == [thoughtHistory |-> EmptyMap, branches |-> EmptyMap]

\* types.ts lines 31-48: the three secrets of the bindings.  Each is a string,
\* or is undefined when the deployment has not set it.
Envs ==
  [COOKIE_ENCRYPTION_KEY : {"cookie-key", Undefined},
   GITHUB_CLIENT_SECRET : {"github-secret", Undefined},
   MS_CLIENT_SECRET : {"microsoft-secret", Undefined}]
FullEnv ==
  [COOKIE_ENCRYPTION_KEY |-> "cookie-key", GITHUB_CLIENT_SECRET |-> "github-secret",
   MS_CLIENT_SECRET |-> "microsoft-secret"]

Idle == [kind |-> "idle", pc |-> "idle"]
\* A slot is free when it is unused or its request has been answered; a new
\* request takes the first free slot (which slot serves it is immaterial).
Free(r) == req[r].pc \in {"idle", "done"}
FreeSlot(r) == Free(r) /\ \A q \in Slots : q < r => ~Free(q)
\* A response is sent and forgotten: an answered request is in req, and a
\* one-step handler's response in served, only in the state that follows the
\* answer; the next step finds the slot empty.
Sweep == [r \in Slots |-> IF req[r].pc = "done" THEN Idle ELSE req[r]]

\* ------------------------------------------------------- the KV store
\* KVNamespace.put(key, value, {expirationTtl}): the entry lives ttl seconds;
\* expiration is the absolute time, in seconds, at which it is gone.
KvEntry(value, ttlSec, t) ==
  [value |-> value, expirationTtl |-> ttlSec, expiration |-> t \div MsPerSec + ttlSec]
\* KVNamespace.get(key): null for a missing or expired key.
KvGet(store, key, t) ==
  IF key \notin DOMAIN store THEN NoValue
  ELSE IF store[key] = NoValue \/ t \div MsPerSec >= store[key].expiration
  THEN NoValue ELSE store[key].value

\* --------------------------------------------- getMicrosoftTokens
\* Mutants of line 327: the expiry test left out, and the margin left out.
NeedsRefreshAlways(tokens, t) ==
  tokens.refreshToken # Undefined
NeedsRefreshNoMargin(tokens, t) ==
  tokens.refreshToken # Undefined /\ t > tokens.expiresAt

\* line 327: the record is refreshed when it has a refresh token and is
\* inside the five-minute margin.
NeedsRefresh(tokens, t) ==
  tokens.refreshToken # Undefined /\ t > tokens.expiresAt - RefreshMarginMs

\* Mutants of lines 332-336: expires_in taken as milliseconds, and the refresh
\* token overwritten even when the response has none.
ApplyRefreshSeconds(tokens, newTokens, t) ==
  [tokens EXCEPT
     !.accessToken = newTokens.access_token,
     !.refreshToken = IF newTokens.refresh_token # Undefined
                      THEN newTokens.refresh_token ELSE @,
     !.expiresAt = t + newTokens.expires_in]
ApplyRefreshOverwrite(tokens, newTokens, t) ==
  [tokens EXCEPT
     !.accessToken = newTokens.access_token,
     !.refreshToken = newTokens.refresh_token,
     !.expiresAt = t + newTokens.expires_in * MsPerSec]

\* lines 332-336: the stored record updated from the refresh response.
ApplyRefresh(tokens, newTokens, t) ==
  [tokens EXCEPT
     !.accessToken = newTokens.access_token,
     !.refreshToken = IF newTokens.refresh_token # Undefined
                      THEN newTokens.refresh_token ELSE @,
     !.expiresAt = t + newTokens.expires_in * MsPerSec]

\* lines 349-353: what the caller gets.
ReturnValue(tokens) ==
  [accessToken |-> tokens.accessToken,
   refreshToken |-> tokens.refreshToken,
   expiresAt |-> tokens.expiresAt]

\* Mutant of line 341: the refreshed record is written with the TTL of a
\* pending state.
TokenEntryShortLived(tokens, t) == KvEntry(tokens, StateTtlSec, t)

\* lines 338-342: the write of the refreshed record.
TokenEntry(tokens, t) == KvEntry(tokens, TokenTtlSec, t)

\* A call of getMicrosoftTokens(env, userId).  stored is what KV.get gave,
\* tokens the local object, result what was returned (NoValue for null),
\* newTokens the refresh response, refreshCalls and kvWrites count the refresh
\* grants and store writes the call has made.
\* lines 318-327 and 349: KV.get resolves; null, an early return of the
\* record, or the refresh grant is sent.
GmtGet(userId, store, t) ==
  LET tokens == KvGet(store, userId, t) IN
  IF tokens = NoValue THEN
    [pc |-> "done", path |-> "absent", userId |-> userId, stored |-> NoValue,
     tokens |-> NoValue, result |-> NoValue, newTokens |-> NoValue,
     refreshCalls |-> 0, kvWrites |-> 0, raised |-> FALSE, log |-> {}]
  ELSE IF NeedsRefresh(tokens, t) THEN
    [pc |-> "refresh", path |-> "refreshing", userId |-> userId, stored |-> tokens,
     tokens |-> tokens, result |-> NoValue, newTokens |-> NoValue,
     refreshCalls |-> 1, kvWrites |-> 0, raised |-> FALSE, log |-> {}]
  ELSE
    [pc |-> "done", path |-> "fresh", userId |-> userId, stored |-> tokens,
     tokens |-> tokens, result |-> ReturnValue(tokens),
     newTokens |-> NoValue, refreshCalls |-> 0, kvWrites |-> 0, raised |-> FALSE, log |-> {}]

\* lines 329-337: the refresh grant answered ok; the local record is updated
\* and the write is sent.
GmtRefreshOk(call, newTokens, t) ==
  [call EXCEPT !.pc = "put", !.newTokens = newTokens,
               !.tokens = ApplyRefresh(call.tokens, newTokens, t)]

\* Mutant of lines 343-346: the catch rethrows.
GmtRefreshFailThrows(call) ==
  [call EXCEPT !.pc = "done", !.path = "refresh_failed", !.raised = TRUE,
               !.log = @ \cup {"Failed to refresh Microsoft token"}]

\* lines 299-302, 343-353: the refresh grant failed; the error is logged and
\* the local record returned.
GmtRefreshFail(call) ==
  [call EXCEPT !.pc = "done", !.path = "refresh_failed",
               !.result = ReturnValue(call.tokens),
               !.log = @ \cup {"Failed to refresh Microsoft token",
                               "Token refresh failed"}]

\* lines 338-342, 349-353: the write resolved; the record is returned.
GmtPutOk(call) ==
  [call EXCEPT !.pc = "done", !.path = "refreshed", !.kvWrites = @ + 1,
               !.result = ReturnValue(call.tokens)]

\* lines 338-346, 349-353: the write threw; the catch logs and the local
\* record, already updated, is returned.
GmtPutFail(call) ==
  [call EXCEPT !.pc = "done", !.path = "put_failed",
               !.result = ReturnValue(call.tokens),
               !.log = @ \cup {"Failed to refresh Microsoft token", "KV put failed"}]

\* The token endpoint's answer to a grant: a new access token, a new refresh
\* token or none, and a lifetime.
TokenResponses ==
  {[access_token |-> AccessTok(grants + 1), refresh_token |-> rt, expires_in |-> e] :
     rt \in {Undefined, RefreshTok(grants + 1)}, e \in ExpiresIn}

\* The getMicrosoftTokens call of a slot, if it has one.
NoCall == [pc |-> "none"]
CallOf(r) ==
  IF req[r].kind \in {"gmt", "gh_callback", "sendEmail"} THEN req[r].call ELSE NoCall

\* github-handler.ts lines 159-161: microsoftTokens?.field, undefined when
\* getMicrosoftTokens returned null.
OptionalField(result, field) == IF result = NoValue THEN Undefined ELSE result[field]

\* Mutant of lines 159-161: the props are filled from the record as it was
\* read, not as getMicrosoftTokens returned it.
GhResumeStored(rq, call) ==
  IF call.pc # "done" THEN [rq EXCEPT !.call = call, !.pc = "call"]
  ELSE [rq EXCEPT
          !.call = call, !.pc = "done", !.completions = @ + 1,
          !.completed =
             [request |-> rq.oauthReqInfo, userId |-> rq.login,
              scope |-> rq.oauthReqInfo.scope,
              props |-> [accessToken |-> rq.accessToken, login |-> rq.login,
                         microsoftAccessToken |-> OptionalField(call.stored, "accessToken"),
                         microsoftRefreshToken |-> OptionalField(call.stored, "refreshToken"),
                         microsoftTokenExpiry |-> OptionalField(call.stored, "expiresAt")]],
          !.status = 302, !.body = "redirectTo",
          !.log = @ \cup {"Successfully completed authorization, redirecting to",
                          rq.oauthReqInfo.redirectUri}]

\* github-handler.ts lines 144-168: GET /callback resumes when the call has
\* returned: the props carry the Microsoft tokens if there are any,
\* completeAuthorization is called and the client is redirected.
GhResume(rq, call) ==
  IF call.pc # "done" THEN [rq EXCEPT !.call = call, !.pc = "call"]
  ELSE [rq EXCEPT
          !.call = call, !.pc = "done", !.completions = @ + 1,
          !.completed =
             [request |-> rq.oauthReqInfo, userId |-> rq.login,
              scope |-> rq.oauthReqInfo.scope,
              props |-> [accessToken |-> rq.accessToken, login |-> rq.login,
                         microsoftAccessToken |-> OptionalField(call.result, "accessToken"),
                         microsoftRefreshToken |-> OptionalField(call.result, "refreshToken"),
                         microsoftTokenExpiry |-> OptionalField(call.result, "expiresAt")]],
          !.status = 302, !.body = "redirectTo",
          !.log = @ \cup {"Successfully completed authorization, redirecting to",
                          rq.oauthReqInfo.redirectUri}]

\* ---- the sendEmail tool (email-tools.ts), a caller of getMicrosoftTokens
\* A JavaScript string is the sequence of its characters here; the empty
\* string and a parameter left out are both falsy and both the empty
\* sequence.  An optional number is <<>> when undefined, <<n>> when n.
NoNumber == <<>>
Some(n) == <<n>>
\* `tokenExpiry && ...` (line 86): undefined and 0 are falsy.
TruthyNumber(x) == x # NoNumber /\ x[1] # 0

\* String.prototype.split(','): the pieces between the commas.
RECURSIVE Split(_, _)
Split(s, sep) ==
  IF \A i \in 1 .. Len(s) : s[i] # sep THEN <<s>>
  ELSE LET i == CHOOSE k \in 1 .. Len(s) :
                  s[k] = sep /\ \A m \in 1 .. k - 1 : s[m] # sep
       IN <<SubSeq(s, 1, i - 1)>> \o Split(SubSeq(s, i + 1, Len(s)), sep)

\* String.prototype.trim(): the white space at both ends removed.
RECURSIVE Trim(_)
Trim(s) ==
  IF s = <<>> THEN s
  ELSE IF s[1] = " " THEN Trim(Tail(s))
  ELSE IF s[Len(s)] = " " THEN Trim(SubSeq(s, 1, Len(s) - 1))
  ELSE s

\* lines 177-183: formatRecipients.
formatRecipients(emails) ==
  LET parts == Split(emails, ",")
  IN [i \in 1 .. Len(parts) |-> [emailAddress |-> [address |-> Trim(parts[i])]]]

\* line 189: /^[^\s@]+@[^\s@]+\.[^\s@]+$/.test(email): one "@" with
\* something before it, a "." after it with something on both sides, no
\* white space and no second "@".
emailRegexTest(email) ==
  \E i, j \in 1 .. Len(email) :
    /\ email[i] = "@" /\ email[j] = "."
    /\ 1 < i /\ i + 1 < j /\ j < Len(email)
    /\ \A k \in 1 .. Len(email) : email[k] # " " /\ (email[k] = "@" => k = i)

\* Mutant of line 190: no address is reported.
validateEmailAddressesNone(emails) == <<>>

\* lines 188-191: validateEmailAddresses, the addresses that fail the test.
validateEmailAddresses(emails) == SelectSeq(emails, LAMBDA email : ~emailRegexTest(email))

\* createErrorResponse / the text content of a result (types.ts).
createErrorResponse(rq, message) ==
  [rq EXCEPT !.pc = "done", !.isError = TRUE, !.text = message]

\* String.prototype.toLowerCase() on the logins of the model.
toLowerCase(login) == IF login = "Pimmetjeoss" THEN "pimmetjeoss" ELSE login

\* lines 74-132: the token is required, its expiry is tested when it is
\* known, the recipients are formatted and validated; then the message is
\* posted to the Graph sendMail endpoint with the token as bearer.
SendEmailChecks(rq, t) ==
  LET toRecipients == formatRecipients(rq.to)
      ccRecipients == IF rq.cc # <<>> THEN formatRecipients(rq.cc) ELSE <<>>
      bccRecipients == IF rq.bcc # <<>> THEN formatRecipients(rq.bcc) ELSE <<>>
      all == toRecipients \o ccRecipients \o bccRecipients
      invalidEmails ==
        validateEmailAddresses([i \in 1 .. Len(all) |-> all[i].emailAddress.address])
  IN IF Falsy(rq.microsoftAccessToken)
     THEN createErrorResponse(rq, "Microsoft authentication required")
     ELSE IF TruthyNumber(rq.tokenExpiry) /\ t > rq.tokenExpiry[1]
     THEN createErrorResponse(rq, "Microsoft token expired")
     ELSE IF Len(invalidEmails) > 0
     THEN createErrorResponse(rq, "Invalid email addresses detected")
     ELSE [rq EXCEPT !.pc = "fetch", !.sent = @ + 1,
                     !.bearer = rq.microsoftAccessToken,
                     !.recipients = [i \in 1 .. Len(all) |-> all[i].emailAddress.address]]

\* lines 58-72: a getMicrosoftTokens call of the tool has returned.  After a
\* null for the login the lowercase login is tried if it differs; the tokens
\* found replace the undefined ones of the props.
SendEmailResume(rq, call, t) ==
  IF call.pc # "done" THEN [rq EXCEPT !.call = call, !.pc = "call"]
  ELSE IF call.result = NoValue /\ Len(rq.lookups) = 1
          /\ rq.login # toLowerCase(rq.login)
  THEN [rq EXCEPT !.call = call, !.pc = "lowercase"]
  ELSE IF call.result = NoValue
  THEN SendEmailChecks([rq EXCEPT !.call = call], t)
  ELSE SendEmailChecks([rq EXCEPT !.call = call,
                                  !.microsoftAccessToken = call.result.accessToken,
                                  !.tokenExpiry = Some(call.result.expiresAt)], t)

\* lines 44-60: the tool is called; the token of the props is taken, and when
\* there is none getMicrosoftTokens is called for the login.
SendEmailGet(props, args, store, t) ==
  LET rq == [kind |-> "sendEmail", pc |-> "call", login |-> props.login, props |-> props,
             to |-> args.to, cc |-> args.cc, bcc |-> args.bcc,
             microsoftAccessToken |-> props.microsoftAccessToken,
             tokenExpiry |-> props.microsoftTokenExpiry,
             call |-> NoCall, lookups |-> <<>>, sent |-> 0,
             bearer |-> Undefined, recipients |-> <<>>, startedAt |-> t,
             isError |-> FALSE, text |-> "none"]
  IN IF ~Falsy(props.microsoftAccessToken) THEN SendEmailChecks(rq, t)
     ELSE SendEmailResume([rq EXCEPT !.lookups = <<props.login>>],
                          GmtGet(props.login, store, t), t)

\* line 62: the second call, for the lowercase login.
SendEmailLowercase(rq, store, t) ==
  SendEmailResume([rq EXCEPT !.lookups = Append(@, toLowerCase(rq.login))],
                  GmtGet(toLowerCase(rq.login), store, t), t)

\* lines 143-161: Graph accepted the message.
SendEmailOk(rq) ==
  [rq EXCEPT !.pc = "done", !.isError = FALSE, !.text = "Email sent successfully"]

\* lines 138-141, 163-169: Graph refused it, or the fetch threw.
SendEmailCatch(rq) == createErrorResponse(rq, "Failed to send email")

\* The caller resumes when the call has returned.  A direct caller has its
\* answer then.
Resume(rq, call) ==
  IF rq.kind = "gh_callback" THEN GhResume(rq, call)
  ELSE IF rq.kind = "sendEmail" THEN SendEmailResume(rq, call, now)
  ELSE [kind |-> rq.kind, call |-> call,
        pc |-> IF call.pc = "done" THEN "done" ELSE "call"]

\* ---- the actions of a direct call (the email tool calls it this way)
\* Mutant of lines 318-329: a call for an owner waits while another call for
\* the same owner is refreshing.
getMicrosoftTokensLocked(r, userId) ==
  /\ FreeSlot(r)
  /\ \A q \in Slots :
       ~(CallOf(q).pc \in {"refresh", "put"} /\ CallOf(q).userId = userId)
  /\ req' = [Sweep EXCEPT ![r] = Resume([kind |-> "gmt", pc |-> "call"],
                                        GmtGet(userId, msTokens, now))]
  /\ UNCHANGED <<now, msTokens, msState, grants, nonces, consumed, env, thinking>>
  /\ served' = NoValue

getMicrosoftTokens(r, userId) ==
  /\ FreeSlot(r)
  /\ req' = [Sweep EXCEPT ![r] = Resume([kind |-> "gmt", pc |-> "call"],
                                        GmtGet(userId, msTokens, now))]
  /\ UNCHANGED <<now, msTokens, msState, grants, nonces, consumed, env, thinking>>
  /\ served' = NoValue

refreshMicrosoftTokenOk(r) ==
  /\ CallOf(r).pc = "refresh"
  /\ grants < MaxGrants
  /\ \E newTokens \in TokenResponses :
       req' = [Sweep EXCEPT ![r] = Resume(@, GmtRefreshOk(req[r].call, newTokens, now))]
  /\ grants' = grants + 1
  /\ UNCHANGED <<now, msTokens, msState, nonces, consumed, env, thinking>>
  /\ served' = NoValue

refreshMicrosoftTokenFail(r) ==
  /\ CallOf(r).pc = "refresh"
  /\ req' = [Sweep EXCEPT ![r] = Resume(@, GmtRefreshFail(req[r].call))]
  /\ UNCHANGED <<now, msTokens, msState, grants, nonces, consumed, env, thinking>>
  /\ served' = NoValue

getMicrosoftTokensPutOk(r) ==
  /\ CallOf(r).pc = "put"
  /\ msTokens' = [msTokens EXCEPT
                    ![req[r].call.userId] = TokenEntry(req[r].call.tokens, now)]
  /\ req' = [Sweep EXCEPT ![r] = Resume(@, GmtPutOk(req[r].call))]
  /\ UNCHANGED <<now, msState, grants, nonces, consumed, env, thinking>>
  /\ served' = NoValue

getMicrosoftTokensPutFail(r) ==
  /\ CallOf(r).pc = "put"
  /\ req' = [Sweep EXCEPT ![r] = Resume(@, GmtPutFail(req[r].call))]
  /\ UNCHANGED <<now, msTokens, msState, grants, nonces, consumed, env, thinking>>
  /\ served' = NoValue

Tick ==
  /\ now < MaxTicks * TickMs
  /\ now' = now + TickMs
  /\ UNCHANGED <<msTokens, msState, grants, nonces, consumed, env, thinking>>
  /\ served' = NoValue
  /\ req' = Sweep

\* --------------------------------------------------- the handlers' inputs
\* JavaScript's !x for a query parameter.
Cookies == {"none", "valid"}
UserIds == Owners \cup {Undefined}
\* The query strings of GET /microsoft/callback: the provider's redirect with a
\* code and a state (one that GET /microsoft/authorize generates, or a forged
\* one), the provider's redirect with an error, and requests that lack the
\* code or the state.  The provider's redirect carries no userId parameter; a
\* request made by hand may carry one (line 193 reads it).
MsCallbackRequests ==
  {[code |-> "code1", state |-> s, error |-> Undefined, userId |-> Undefined] :
     s \in NonceIds \cup {"forged"}}
    \cup {[code |-> "code1", state |-> Nonce(1), error |-> Undefined, userId |-> "bob"]}
    \cup {[code |-> c, state |-> Nonce(1), error |-> "access_denied", userId |-> Undefined] :
            c \in {Undefined, "code1"}}
    \cup {[code |-> Undefined, state |-> Nonce(1), error |-> Undefined, userId |-> Undefined],
          [code |-> "code1", state |-> Undefined, error |-> Undefined, userId |-> Undefined]}
UpstreamStatuses == {401, 503}

\* oauth-utils' clientIdAlreadyApproved (spec 4.1): the approval cookie verifies.
clientIdAlreadyApproved(cookie) == cookie = "valid"

\* ------------------------------------------- GET /microsoft/authorize
\* lines 32-73: 400 without userId; otherwise the state is generated and
\* stored for ten minutes, and the answer is the redirect to Microsoft when the
\* approval cookie verifies, the approval dialog when not.
\* lines 216-222: what redirectToMicrosoft logs: the client id, the redirect
\* URI, the authorize URL (which holds the state) and the scopes.
MicrosoftRedirectLog(state) ==
  {"Microsoft OAuth redirect", "microsoft-app-id", "/microsoft/callback",
   "https://login.microsoftonline.com/common/oauth2/v2.0/authorize", state,
   "offline_access"}

MsAuthorizeResponse(userId, state, cookie) ==
  IF Falsy(userId)
  THEN [handler |-> "GET /microsoft/authorize", status |-> 400,
        body |-> "Missing userId parameter", state |-> Undefined, userId |-> userId,
        log |-> {}]
  ELSE IF clientIdAlreadyApproved(cookie)
  THEN [handler |-> "GET /microsoft/authorize", status |-> 302,
        body |-> "redirectToMicrosoft", state |-> state, userId |-> userId,
        log |-> MicrosoftRedirectLog(state)]
  ELSE [handler |-> "GET /microsoft/authorize", status |-> 200,
        body |-> "renderApprovalDialog", state |-> state, userId |-> userId,
        log |-> {}]

\* Mutant of lines 47-51: the state is generated but not stored.
MsAuthorizeGetNoPut(userId, cookie) ==
  /\ Falsy(userId) \/ nonces < MaxNonce
  /\ served' = MsAuthorizeResponse(userId, Nonce(nonces + 1), cookie)
  /\ nonces' = IF Falsy(userId) THEN nonces ELSE nonces + 1
  /\ UNCHANGED <<now, msTokens, msState, grants, consumed, env, thinking>>
  /\ req' = Sweep

\* Mutant of line 50: the state is stored with the TTL of a token record.
MsAuthorizeGetLongLived(userId, cookie) ==
  /\ Falsy(userId) \/ nonces < MaxNonce
  /\ LET state == Nonce(nonces + 1) IN
     /\ served' = MsAuthorizeResponse(userId, state, cookie)
     /\ IF Falsy(userId) THEN UNCHANGED <<msState, nonces>>
        ELSE /\ msState' = [msState EXCEPT
                              ![state] = KvEntry([userId |-> userId], TokenTtlSec, now)]
             /\ nonces' = nonces + 1
  /\ UNCHANGED <<now, msTokens, grants, consumed, env, thinking>>
  /\ req' = Sweep

MsAuthorizeGet(userId, cookie) ==
  /\ Falsy(userId) \/ nonces < MaxNonce
  /\ LET state == Nonce(nonces + 1) IN
     /\ served' = MsAuthorizeResponse(userId, state, cookie)
     /\ IF Falsy(userId) THEN UNCHANGED <<msState, nonces>>
        ELSE /\ msState' = [msState EXCEPT
                              ![state] = KvEntry([userId |-> userId], StateTtlSec, now)]
             /\ nonces' = nonces + 1
  /\ UNCHANGED <<now, msTokens, grants, consumed, env, thinking>>
  /\ req' = Sweep

\* -------------------------------------------- GET /microsoft/callback
\* lines 186-197: the catch renders the error page, status 500, with a retry
\* link built from the request's own userId query parameter.
MsCallbackCatch(rq, message) ==
  [rq EXCEPT !.pc = "done", !.status = 500, !.body = message,
             !.retryUserId = rq.userIdQuery,
             !.log = @ \cup {"Microsoft OAuth callback error", message}]

\* Mutant of lines 131-133: the missing state is not checked.
MsStateMissingNever(stateData) == FALSE

\* lines 131-133: no pending state under the key.
MsStateMissing(stateData) == stateData = NoValue

\* lines 105-138: the provider's error, the missing parameters, the lookup of
\* the pending state; when it is found its delete is sent.
MsCallbackGet(code, state, error, userIdQuery, store, t, used) ==
  LET base == [kind |-> "ms_callback", pc |-> "done", code |-> code, state |-> state,
               error |-> error, userIdQuery |-> userIdQuery, userId |-> Undefined,
               stateFound |-> FALSE, afterConsumed |-> state \in used,
               exchange |-> "none", identity |-> "none",
               tokenResponse |-> NoValue, tokenData |-> NoValue, kvWrites |-> 0,
               status |-> 0, body |-> "none", retryUserId |-> Undefined,
               log |-> {}]
      stateData == KvGet(store, state, t)
  IN IF ~Falsy(error)
     THEN [base EXCEPT !.status = 200, !.body = "Authorization Failed",
                       !.log = {"Microsoft OAuth error", error}]
     ELSE IF Falsy(code) \/ Falsy(state)
     THEN [base EXCEPT !.status = 400, !.body = "Missing code or state parameter"]
     ELSE IF MsStateMissing(stateData)
     THEN MsCallbackCatch(base, "Invalid or expired state parameter")
     ELSE [base EXCEPT !.pc = "delete", !.stateFound = TRUE,
                       !.userId = IF stateData = NoValue THEN Undefined
                                  ELSE stateData.userId]

\* Mutant of line 138: the state is left in the store.
MsStateDeleteNot(store, state) == store

\* Mutant of line 138: the delete removes every pending state.
MsStateDeleteAll(store, state) == [n \in DOMAIN store |-> NoValue]

\* line 138: OAUTH_KV.delete of the pending state.
MsStateDelete(store, state) == [store EXCEPT ![state] = NoValue]

\* lines 138-141: the delete has resolved; the code is sent to the token endpoint.
MsCallbackDeleted(rq) == [rq EXCEPT !.pc = "exchange", !.exchange = "sent"]

\* lines 141-144, 250-255: the token endpoint answered ok; the profile is asked for.
MsExchangeOk(rq, tokenResponse) ==
  [rq EXCEPT !.pc = "userinfo", !.exchange = "ok", !.tokenResponse = tokenResponse,
             !.identity = "sent"]

\* lines 250-253, 186-197: the token endpoint answered with an error status.
MsExchangeFail(rq) ==
  MsCallbackCatch([rq EXCEPT !.exchange = "failed"], "Token exchange failed")

\* Mutant of line 150: expires_in added to the time without the factor 1000.
MsUserInfoOkSeconds(rq, userInfo, t) ==
  [rq EXCEPT !.pc = "put", !.identity = "ok",
             !.tokenData =
                [accessToken |-> rq.tokenResponse.access_token,
                 refreshToken |-> rq.tokenResponse.refresh_token,
                 expiresAt |-> t + rq.tokenResponse.expires_in,
                 userInfo |-> userInfo]]

\* lines 144-162: the profile arrived; the token record is built and its write sent.
MsUserInfoOk(rq, userInfo, t) ==
  [rq EXCEPT !.pc = "put", !.identity = "ok",
             !.tokenData =
                [accessToken |-> rq.tokenResponse.access_token,
                 refreshToken |-> rq.tokenResponse.refresh_token,
                 expiresAt |-> t + rq.tokenResponse.expires_in * MsPerSec,
                 userInfo |-> userInfo]]

\* Mutant of lines 268-271: a failed profile request is not noticed and the
\* record is written without profile.
MsUserInfoFailIgnored(rq, t) ==
  [rq EXCEPT !.pc = "put", !.identity = "failed",
             !.tokenData =
                [accessToken |-> rq.tokenResponse.access_token,
                 refreshToken |-> rq.tokenResponse.refresh_token,
                 expiresAt |-> t + rq.tokenResponse.expires_in * MsPerSec,
                 userInfo |-> Undefined]]

\* lines 268-271, 186-197: the profile request failed.
MsUserInfoFail(rq, t) ==
  MsCallbackCatch([rq EXCEPT !.identity = "failed"], "Failed to get user info")

\* lines 158-184: the write has resolved; the success page.
MsCallbackPut(rq) ==
  [rq EXCEPT !.pc = "done", !.kvWrites = @ + 1, !.status = 200,
             !.body = "Microsoft Authentication Successful"]

MsCallback(r, code, state, error, userIdQuery) ==
  /\ FreeSlot(r)
  /\ req' = [Sweep EXCEPT ![r] =
               MsCallbackGet(code, state, error, userIdQuery, msState, now, consumed)]
  /\ UNCHANGED <<now, msTokens, msState, grants, nonces, consumed, env, thinking>>
  /\ served' = NoValue

MsCallbackStateDeleted(r) ==
  /\ req[r].kind = "ms_callback" /\ req[r].pc = "delete"
  /\ msState' = MsStateDelete(msState, req[r].state)
  /\ consumed' = consumed \cup {req[r].state}
  /\ req' = [Sweep EXCEPT ![r] = MsCallbackDeleted(@)]
  /\ UNCHANGED <<now, msTokens, grants, nonces, env, thinking>>
  /\ served' = NoValue

exchangeCodeForTokenOk(r, tokenResponse) ==
  /\ req[r].kind = "ms_callback" /\ req[r].pc = "exchange"
  /\ grants < MaxGrants
  /\ tokenResponse \in TokenResponses
  /\ req' = [Sweep EXCEPT ![r] = MsExchangeOk(@, tokenResponse)]
  /\ grants' = grants + 1
  /\ UNCHANGED <<now, msTokens, msState, nonces, consumed, env, thinking>>
  /\ served' = NoValue

\* Mutant of lines 186-197: the catch puts the pending state back so that the
\* callback can be repeated.
exchangeCodeForTokenFailRestores(r) ==
  /\ req[r].kind = "ms_callback" /\ req[r].pc = "exchange"
  /\ req' = [Sweep EXCEPT ![r] = MsExchangeFail(@)]
  /\ msState' = [msState EXCEPT
                   ![req[r].state] = KvEntry([userId |-> req[r].userId], StateTtlSec, now)]
  /\ UNCHANGED <<now, msTokens, grants, nonces, consumed, env, thinking>>
  /\ served' = NoValue

exchangeCodeForTokenFail(r) ==
  /\ req[r].kind = "ms_callback" /\ req[r].pc = "exchange"
  /\ req' = [Sweep EXCEPT ![r] = MsExchangeFail(@)]
  /\ UNCHANGED <<now, msTokens, msState, grants, nonces, consumed, env, thinking>>
  /\ served' = NoValue

getMicrosoftUserInfoOk(r) ==
  /\ req[r].kind = "ms_callback" /\ req[r].pc = "userinfo"
  /\ req' = [Sweep EXCEPT ![r] = MsUserInfoOk(@, Profile, now)]
  /\ UNCHANGED <<now, msTokens, msState, grants, nonces, consumed, env, thinking>>
  /\ served' = NoValue

getMicrosoftUserInfoFail(r) ==
  /\ req[r].kind = "ms_callback" /\ req[r].pc = "userinfo"
  /\ req' = [Sweep EXCEPT ![r] = MsUserInfoFail(@, now)]
  /\ UNCHANGED <<now, msTokens, msState, grants, nonces, consumed, env, thinking>>
  /\ served' = NoValue

\* Mutant of line 159: the record is written under the userId of the callback
\* request when it carries one.
MsCallbackTokensStoredByQuery(r) ==
  /\ req[r].kind = "ms_callback" /\ req[r].pc = "put"
  /\ msTokens' = [msTokens EXCEPT
                    ![IF Falsy(req[r].userIdQuery) THEN req[r].userId
                      ELSE req[r].userIdQuery] =
                        KvEntry(req[r].tokenData, TokenTtlSec, now)]
  /\ req' = [Sweep EXCEPT ![r] = MsCallbackPut(@)]
  /\ UNCHANGED <<now, msState, grants, nonces, consumed, env, thinking>>
  /\ served' = NoValue

MsCallbackTokensStored(r) ==
  /\ req[r].kind = "ms_callback" /\ req[r].pc = "put"
  /\ msTokens' = [msTokens EXCEPT
                    ![req[r].userId] = KvEntry(req[r].tokenData, TokenTtlSec, now)]
  /\ req' = [Sweep EXCEPT ![r] = MsCallbackPut(@)]
  /\ UNCHANGED <<now, msState, grants, nonces, consumed, env, thinking>>
  /\ served' = NoValue

\* ------------------------------------------------------ GET /callback
\* A state string is what redirectToGithub made, btoa(JSON.stringify(r)), or
\* something else: pct counts the layers of percent-encoding around it, b64
\* says whether the text under them is base64, json is the text the base64
\* holds.  A JSON text is an object (the record obj), null, a number, or not
\* JSON at all.
AuthRequests ==
  {[clientId |-> c, redirectUri |-> "https://client/cb", scope |-> "read"] :
     c \in {"abc123", "xyz789", "", Undefined}}
JsonTexts ==
  {[kind |-> "object", obj |-> q] : q \in AuthRequests}
    \cup {[kind |-> k, obj |-> NoValue] : k \in {"null", "number", "invalid"}}
StateParams ==
  {[pct |-> n, b64 |-> TRUE, json |-> j] : n \in {0, 1}, j \in JsonTexts}
    \cup {[pct |-> 0, b64 |-> FALSE, json |-> [kind |-> "invalid", obj |-> NoValue]]}
    \cup {[pct |-> 2, b64 |-> TRUE, json |-> j] :
            j \in {t \in JsonTexts : t.kind = "object" /\ t.obj.clientId = "abc123"}}
\* line 63: the state of the redirect to GitHub.
EncodeState(oauthReqInfo) ==
  [pct |-> 0, b64 |-> TRUE, json |-> [kind |-> "object", obj |-> oauthReqInfo]]
\* The query strings of GET /callback: GitHub's redirect with the state that
\* redirectToGithub made (as it was, or percent-encoded once more on the way),
\* with or without a code and an error parameter, and requests whose state is
\* missing or is not what redirectToGithub makes.
ValidRequest == [clientId |-> "abc123", redirectUri |-> "https://client/cb", scope |-> "read"]
GhCallbackRequests ==
  {[state |-> EncodeState(ValidRequest), code |-> c, error |-> e] :
     c \in {Undefined, "code1"}, e \in {Undefined, "access_denied"}}
    \cup {[state |-> sp, code |-> "code1", error |-> Undefined] :
            sp \in StateParams \cup {NoValue}}

Failed == [ok |-> FALSE]
\* atob: throws on a character outside the base64 alphabet, "%" included.
Atob(s) == IF s.pct = 0 /\ s.b64 THEN [ok |-> TRUE, value |-> s.json] ELSE Failed
\* Mutant of line 101: the percent-decoding pass does nothing.
DecodeURIComponentNot(s) == s

\* decodeURIComponent: takes one layer of percent-encoding off.
DecodeURIComponent(s) == [s EXCEPT !.pct = IF @ > 0 THEN @ - 1 ELSE @]
\* JSON.parse: throws on a text that is not JSON.
JsonParse(text) == IF text.kind = "invalid" THEN Failed ELSE [ok |-> TRUE, value |-> text]

\* lines 92-113: the direct decode, and on failure the decode after a
\* percent-decoding pass.
DecodeState(stateParam) ==
  LET direct == Atob(stateParam)
      directJson == IF direct.ok THEN JsonParse(direct.value) ELSE Failed
      retry == Atob(DecodeURIComponent(stateParam))
      retryJson == IF retry.ok THEN JsonParse(retry.value) ELSE Failed
  IN IF directJson.ok THEN directJson ELSE retryJson

\* Mutant of line 115: the client id is taken as present whatever was parsed.
ClientIdOfAssumed(value) == "abc123"

\* line 115: oauthReqInfo.clientId of the parsed value: a property read of null
\* throws (the caller asks for "null" first), that of a number gives undefined.
ClientIdOf(value) == IF value.kind = "object" THEN value.obj.clientId ELSE Undefined

\* Mutant of lines 83-86: the missing state is not checked.
GhStateMissingNever(stateParam) == FALSE

\* line 83: no state parameter.
GhStateMissing(stateParam) == stateParam = NoValue

\* lines 88-120: what the handler logs of the state: the parameter as it came,
\* the decoded text and the parsed record.
StateLog(stateParam) ==
  IF stateParam = NoValue THEN {}
  ELSE IF stateParam.json.kind = "object"
  THEN {"State parameter received", stateParam.json.obj.clientId,
        stateParam.json.obj.redirectUri, stateParam.json.obj.scope}
  ELSE {"State parameter received", stateParam.json.kind}

\* lines 170-173: the outer catch.
GhCatch(rq) ==
  [rq EXCEPT !.pc = "done", !.status = 500, !.body = "Callback error",
             !.log = @ \cup {"Unexpected error in callback"}]

\* lines 79-129: the state is required, decoded and must name a client; then
\* the code is handed to fetchUpstreamAuthToken.  Neither the code nor the
\* provider's error parameter is examined.
GhCallbackGet(stateParam, code, error) ==
  LET base == [kind |-> "gh_callback", pc |-> "done", stateParam |-> stateParam,
               code |-> code, error |-> error, oauthReqInfo |-> NoValue,
               decoded |-> FALSE, exchange |-> "none", identity |-> "none",
               accessToken |-> Undefined, login |-> Undefined, call |-> NoCall,
               completions |-> 0, completed |-> NoValue, status |-> 0,
               body |-> "none", log |-> {}]
      dec == IF stateParam = NoValue THEN Failed ELSE DecodeState(stateParam)
      seen == StateLog(stateParam)
  IN IF GhStateMissing(stateParam)
     THEN [base EXCEPT !.status = 400, !.body = "Missing state parameter",
                       !.log = {"No state parameter found"}]
     ELSE IF ~dec.ok
     THEN [base EXCEPT !.status = 400, !.body = "State decoding failed",
                       !.log = seen \cup {"Both decode methods failed"}]
     ELSE IF dec.value.kind = "null"
     THEN GhCatch([base EXCEPT !.log = seen])
     ELSE IF Falsy(ClientIdOf(dec.value))
     THEN [base EXCEPT !.status = 400, !.body = "Invalid state - missing clientId",
                       !.log = seen \cup {"No clientId in decoded oauthReqInfo"}]
     ELSE [base EXCEPT !.pc = "exchange", !.decoded = TRUE,
                       !.oauthReqInfo = dec.value.obj, !.exchange = "sent",
                       !.log = seen \cup {"Successfully decoded oauthReqInfo"}]

\* Mutant of line 135: the log line names the token it got.
GhExchangeOkLogsToken(rq) ==
  [rq EXCEPT !.pc = "user", !.exchange = "ok", !.accessToken = "gh-token",
             !.identity = "sent",
             !.log = @ \cup {"Successfully got access token", "gh-token"}]

\* oauth-utils' fetchUpstreamAuthToken (spec 4.4) gave the access token; lines
\* 135-138: the user is asked for.
GhExchangeOk(rq) ==
  [rq EXCEPT !.pc = "user", !.exchange = "ok", !.accessToken = "gh-token",
             !.identity = "sent",
             !.log = @ \cup {"Successfully got access token"}]

\* Mutant of lines 130-133: the failure response is not looked at and the
\* handler goes on to the user lookup.
GhExchangeErrIgnored(rq, upstream) ==
  [rq EXCEPT !.pc = "user", !.exchange = "failed", !.identity = "sent"]

\* lines 130-133: fetchUpstreamAuthToken gave the failure response, which is
\* returned as it is.
GhExchangeErr(rq, upstream) ==
  [rq EXCEPT !.pc = "done", !.exchange = "failed", !.status = upstream,
             !.body = "errResponse",
             !.log = @ \cup {"Error fetching upstream auth token"}]

\* lines 138-144: the user arrived; getMicrosoftTokens(login) is called.
GhUserOk(rq, login, store, t) ==
  GhResume([rq EXCEPT !.identity = "ok", !.login = login,
                      !.log = @ \cup {"Successfully fetched user info", login}],
           GmtGet(login, store, t))

\* Mutant of lines 138, 170: the failed lookup is not noticed and the
\* authorization is completed.
GhUserFailIgnored(rq) ==
  [rq EXCEPT !.pc = "done", !.identity = "failed", !.completions = @ + 1,
             !.status = 302, !.body = "redirectTo"]

\* lines 138, 170-173: getAuthenticated threw.
GhUserFail(rq) == GhCatch([rq EXCEPT !.identity = "failed"])

GhCallback(r, stateParam, code, error) ==
  /\ FreeSlot(r)
  /\ req' = [Sweep EXCEPT ![r] = GhCallbackGet(stateParam, code, error)]
  /\ UNCHANGED <<now, msTokens, msState, grants, nonces, consumed, env, thinking>>
  /\ served' = NoValue

fetchUpstreamAuthTokenOk(r) ==
  /\ req[r].kind = "gh_callback" /\ req[r].pc = "exchange"
  /\ ~Falsy(req[r].code)
  /\ req' = [Sweep EXCEPT ![r] = GhExchangeOk(@)]
  /\ UNCHANGED <<now, msTokens, msState, grants, nonces, consumed, env, thinking>>
  /\ served' = NoValue

fetchUpstreamAuthTokenErr(r) ==
  /\ req[r].kind = "gh_callback" /\ req[r].pc = "exchange"
  /\ \E upstream \in UpstreamStatuses :
       req' = [Sweep EXCEPT ![r] = GhExchangeErr(@, upstream)]
  /\ UNCHANGED <<now, msTokens, msState, grants, nonces, consumed, env, thinking>>
  /\ served' = NoValue

getAuthenticatedOk(r) ==
  /\ req[r].kind = "gh_callback" /\ req[r].pc = "user"
  /\ \E login \in Owners :
       req' = [Sweep EXCEPT ![r] = GhUserOk(@, login, msTokens, now)]
  /\ UNCHANGED <<now, msTokens, msState, grants, nonces, consumed, env, thinking>>
  /\ served' = NoValue

getAuthenticatedFail(r) ==
  /\ req[r].kind = "gh_callback" /\ req[r].pc = "user"
  /\ req' = [Sweep EXCEPT ![r] = GhUserFail(@)]
  /\ UNCHANGED <<now, msTokens, msState, grants, nonces, consumed, env, thinking>>
  /\ served' = NoValue

\* --------------------------------------------- the authorize endpoints
\* The client ids this server has at the two providers (env.GITHUB_CLIENT_ID,
\* env.MS_CLIENT_ID); the ids in AuthRequests are those of the server's own
\* clients.
GITHUB_CLIENT_ID == "github-app-id"
MS_CLIENT_ID == "microsoft-app-id"
MICROSOFT_AUTH_URL == "https://login.microsoftonline.com/common/oauth2/v2.0/authorize"
\* The Cookie header of a request: none, an approval cookie that verifies for
\* the client id asked about, or one that does not (other client, bad
\* signature, too old).
ApprovalCookies == Cookies \cup {"tampered"}
\* No Location, no Set-Cookie.
NoHeader == [absent |-> TRUE]
\* oauth-utils' approval Set-Cookie (spec 4.1 sign) for a client id.
ApprovalSetCookie(clientId) == [approved |-> clientId]

\* oauth-utils' getUpstreamAuthorizeUrl (spec 4.3 buildAuthorizeUrl): the
\* provider's authorize endpoint with the parameters as its query.
getUpstreamAuthorizeUrl(p) ==
  [endpoint |-> p.upstream_url, client_id |-> p.client_id,
   redirect_uri |-> p.redirect_uri, scope |-> p.scope, state |-> p.state]

\* Mutant of line 63: the state leaves the client id out.
redirectToGithubBareState(oauthReqInfo, headers) ==
  [status |-> 302, body |-> "redirect",
   location |-> getUpstreamAuthorizeUrl(
      [client_id |-> GITHUB_CLIENT_ID, redirect_uri |-> "/callback",
       scope |-> "read:user",
       state |-> EncodeState([oauthReqInfo EXCEPT !.clientId = Undefined]),
       upstream_url |-> "https://github.com/login/oauth/authorize"]),
   setCookie |-> headers, log |-> {}]

\* lines 50-69: the 302 to GitHub's authorize endpoint; the state is
\* btoa(JSON.stringify(oauthReqInfo)), the headers are passed on.
redirectToGithub(oauthReqInfo, headers) ==
  [status |-> 302, body |-> "redirect",
   location |-> getUpstreamAuthorizeUrl(
      [client_id |-> GITHUB_CLIENT_ID, redirect_uri |-> "/callback",
       scope |-> "read:user", state |-> EncodeState(oauthReqInfo),
       upstream_url |-> "https://github.com/login/oauth/authorize"]),
   setCookie |-> headers, log |-> {}]

\* What a handler that answers in one step leaves in served: its name, the
\* request it had and the response.
Answer(handler, request, response) ==
  [handler |-> handler, request |-> request, status |-> response.status,
   body |-> response.body, location |-> response.location,
   setCookie |-> response.setCookie, log |-> response.log]
Plain(status, body) ==
  [status |-> status, body |-> body, location |-> NoHeader, setCookie |-> NoHeader,
   log |-> {}]

\* Mutant of lines 23-27: the redirect is made whatever the cookie.
GhAuthorizeGetAlways(oauthReqInfo, cookie) ==
  IF Falsy(oauthReqInfo.clientId) THEN Plain(400, "Invalid request")
  ELSE redirectToGithub(oauthReqInfo, NoHeader)

\* lines 16-38: GET /authorize.  400 without client id; the redirect when the
\* approval cookie verifies for the client id; the approval dialog otherwise.
GhAuthorizeGet(oauthReqInfo, cookie) ==
  IF Falsy(oauthReqInfo.clientId) THEN Plain(400, "Invalid request")
  ELSE IF clientIdAlreadyApproved(cookie) THEN redirectToGithub(oauthReqInfo, NoHeader)
  ELSE Plain(200, "renderApprovalDialog")

\* The approval form that is posted: the state the dialog was rendered with
\* and the user's decision.
GhForms ==
  {[state |-> [oauthReqInfo |-> q], decision |-> d] :
     q \in {r \in AuthRequests : r.clientId = "abc123"} \cup {NoValue},
     d \in {"approve", "deny"}}
MsForms ==
  {[state |-> [approved |-> a, microsoftState |-> n]] :
     a \in BOOLEAN, n \in NonceIds}

\* oauth-utils' parseRedirectApproval (spec 4.1): the state of the form and the
\* Set-Cookie that approves the client from now on.
parseRedirectApproval(form) ==
  [state |-> form.state,
   headers |-> IF form.state.oauthReqInfo = NoValue THEN NoHeader
               ELSE ApprovalSetCookie(form.state.oauthReqInfo.clientId)]

\* lines 40-48: POST /authorize.  400 when the form's state has no request;
\* otherwise the redirect with the cookie headers.  The decision is not read.
GhAuthorizePost(form) ==
  LET parsed == parseRedirectApproval(form) IN
  IF parsed.state.oauthReqInfo = NoValue THEN Plain(400, "Invalid request")
  ELSE redirectToGithub(parsed.state.oauthReqInfo, parsed.headers)

\* lines 203-225: the 302 to Microsoft's authorize endpoint.
redirectToMicrosoft(state) ==
  [status |-> 302, body |-> "redirect",
   location |-> [endpoint |-> MICROSOFT_AUTH_URL, client_id |-> MS_CLIENT_ID,
                 redirect_uri |-> "/microsoft/callback", scope |-> "offline_access",
                 state |-> state],
   setCookie |-> NoHeader, log |-> MicrosoftRedirectLog(state)]

\* Mutant of lines 81-83: the denial is not looked at.
MsAuthorizePostAnyway(form) ==
  [redirectToMicrosoft(form.state.microsoftState) EXCEPT
     !.setCookie = ApprovalSetCookie(MS_CLIENT_ID)]

\* lines 78-99: POST /microsoft/authorize.  403 when the form is not an
\* approval; otherwise the redirect with the signed approval cookie.
MsAuthorizePost(form) ==
  IF ~form.state.approved THEN Plain(403, "Authorization denied")
  ELSE [redirectToMicrosoft(form.state.microsoftState) EXCEPT
          !.setCookie = ApprovalSetCookie(MS_CLIENT_ID)]

\* The three handlers answer in one step and touch no store.
GetAuthorize(oauthReqInfo, cookie) ==
  /\ served' = Answer("GET /authorize",
                      [oauthReqInfo |-> oauthReqInfo, cookie |-> cookie],
                      GhAuthorizeGet(oauthReqInfo, cookie))
  /\ req' = Sweep
  /\ UNCHANGED <<now, msTokens, msState, grants, nonces, consumed, env, thinking>>

PostAuthorize(form) ==
  /\ served' = Answer("POST /authorize", form, GhAuthorizePost(form))
  /\ req' = Sweep
  /\ UNCHANGED <<now, msTokens, msState, grants, nonces, consumed, env, thinking>>

PostMicrosoftAuthorize(form) ==
  /\ served' = Answer("POST /microsoft/authorize", form, MsAuthorizePost(form))
  /\ req' = Sweep
  /\ UNCHANGED <<now, msTokens, msState, grants, nonces, consumed, env, thinking>>

\* The clock of the handlers' specification steps by the pending state's TTL.
TickTtl ==
  /\ now < MaxTicks * StateTtlSec * MsPerSec
  /\ now' = now + StateTtlSec * MsPerSec
  /\ UNCHANGED <<msTokens, msState, grants, nonces, consumed, env, thinking>>
  /\ served' = NoValue
  /\ req' = Sweep

\* ------------------------------------ the token-cache specification
\* The records a secondary callback may have left in the store earlier.
SeedExpiry == {k * TickMs : k \in {0, 2, 3, 4}}
SeedRecords ==
  {[accessToken |-> AccessTok(0), refreshToken |-> rt, expiresAt |-> e,
    userInfo |-> Profile] : rt \in {Undefined, RefreshTok(0)}, e \in SeedExpiry}

InitTok ==
  /\ now = 0
  /\ \E rec \in SeedRecords :
       msTokens = [u \in Owners |->
                     IF u = "alice" THEN TokenEntry(rec, 0) ELSE NoValue]
  /\ msState = [n \in NonceIds |-> NoValue]
  /\ req = [r \in Slots |-> Idle]
  /\ grants = 0
  /\ nonces = 0
  /\ consumed = {}
  /\ served = NoValue
  /\ env = FullEnv
  /\ thinking = NewSequentialThinkingState

NextTok ==
  \/ \E r \in Slots, u \in Owners : getMicrosoftTokens(r, u)
  \/ \E r \in Slots : refreshMicrosoftTokenOk(r)
  \/ \E r \in Slots : refreshMicrosoftTokenFail(r)
  \/ \E r \in Slots : getMicrosoftTokensPutOk(r)
  \/ \E r \in Slots : getMicrosoftTokensPutFail(r)
  \/ Tick

SpecTok == InitTok /\ [][NextTok]_vars

\* ------------------- the specification of the secondary provider's handlers
Init ==
  /\ now = 0
  /\ msTokens = [u \in Owners |-> NoValue]
  /\ msState = [n \in NonceIds |-> NoValue]
  /\ req = [r \in Slots |-> Idle]
  /\ grants = 0
  /\ nonces = 0
  /\ consumed = {}
  /\ served = NoValue
  /\ env = FullEnv
  /\ thinking = NewSequentialThinkingState

\* The overlapping callbacks of this specification are answered by the
\* provider as a consent with offline_access is: a refresh token and a
\* lifetime that is not zero.
LongLived == {t \in TokenResponses : t.refresh_token # Undefined /\ t.expires_in # 0}

NextMs ==
  \/ \E userId \in UserIds, cookie \in Cookies : MsAuthorizeGet(userId, cookie)
  \/ \E r \in Slots, q \in MsCallbackRequests :
        MsCallback(r, q.code, q.state, q.error, q.userId)
  \/ \E r \in Slots : MsCallbackStateDeleted(r)
  \/ \E r \in Slots, tokenResponse \in LongLived : exchangeCodeForTokenOk(r, tokenResponse)
  \/ \E r \in Slots : exchangeCodeForTokenFail(r)
  \/ \E r \in Slots : getMicrosoftUserInfoOk(r)
  \/ \E r \in Slots : getMicrosoftUserInfoFail(r)
  \/ \E r \in Slots : MsCallbackTokensStored(r)
  \/ TickTtl

SpecMs == Init /\ [][NextMs]_vars

\* ------------------------- the specification of the authorize endpoints
NextAuth ==
  \/ \E oauthReqInfo \in AuthRequests, cookie \in ApprovalCookies :
        GetAuthorize(oauthReqInfo, cookie)
  \/ \E form \in GhForms : PostAuthorize(form)
  \/ \E userId \in UserIds, cookie \in Cookies : MsAuthorizeGet(userId, cookie)
  \/ \E form \in MsForms : PostMicrosoftAuthorize(form)
  \/ TickTtl

SpecAuth == Init /\ [][NextAuth]_vars

\* ------------- the authorize endpoints under every configuration
\* The deployment has set the secrets or has left some of them out; the
\* bindings do not change while the Worker runs.  No handler of
\* github-handler.ts or microsoft-handler.ts looks at them before it acts:
\* the cookie key is handed to oauth-utils (lines 24, 42; 55, 88), the client
\* secrets are read when a token request is built (line 125; 235, 285).
\* What oauth-utils does with a missing cookie key is not in the repository's
\* sources, so the configurations here have the key and lack client secrets.
InitCfg ==
  /\ now = 0
  /\ msTokens = [u \in Owners |-> NoValue]
  /\ msState = [n \in NonceIds |-> NoValue]
  /\ req = [r \in Slots |-> Idle]
  /\ grants = 0
  /\ nonces = 0
  /\ consumed = {}
  /\ served = NoValue
  /\ env \in {e \in Envs : e.COOKIE_ENCRYPTION_KEY # Undefined}
  /\ thinking = NewSequentialThinkingState

SpecCfg == InitCfg /\ [][NextAuth]_vars

\* ---------------------------- the specification of the primary callback
\* The store holds what a secondary callback has left for alice: a record
\* with a refresh token, inside or outside the refresh margin.
GhSeedRecords ==
  {rec \in SeedRecords : rec.refreshToken # Undefined /\ rec.expiresAt \in {0, 4 * TickMs}}

InitGh ==
  /\ now = 0
  /\ \E rec \in GhSeedRecords :
       msTokens = [u \in Owners |->
                     IF u = "alice" THEN TokenEntry(rec, 0) ELSE NoValue]
  /\ msState = [n \in NonceIds |-> NoValue]
  /\ req = [r \in Slots |-> Idle]
  /\ grants = 0
  /\ nonces = 0
  /\ consumed = {}
  /\ served = NoValue
  /\ env = FullEnv
  /\ thinking = NewSequentialThinkingState

NextGh ==
  \/ \E r \in Slots, q \in GhCallbackRequests :
        GhCallback(r, q.state, q.code, q.error)
  \/ \E r \in Slots : fetchUpstreamAuthTokenOk(r)
  \/ \E r \in Slots : fetchUpstreamAuthTokenErr(r)
  \/ \E r \in Slots : getAuthenticatedOk(r)
  \/ \E r \in Slots : getAuthenticatedFail(r)
  \/ \E r \in Slots : refreshMicrosoftTokenOk(r)
  \/ \E r \in Slots : refreshMicrosoftTokenFail(r)
  \/ \E r \in Slots : getMicrosoftTokensPutOk(r)
  \/ \E r \in Slots : getMicrosoftTokensPutFail(r)

SpecGh == InitGh /\ [][NextGh]_vars

\* ------------------------------- the specification of both callbacks
\* The two providers' callbacks over one store, one callback at a time (slot
\* 1) and at one instant; the overlaps of callbacks are in SpecMs and SpecGh,
\* the passing of time in SpecMs and SpecTok.
First == {r \in Slots : \A q \in Slots : r <= q}

Next ==
  \/ \E userId \in UserIds, cookie \in Cookies : MsAuthorizeGet(userId, cookie)
  \/ \E r \in First, q \in MsCallbackRequests :
        MsCallback(r, q.code, q.state, q.error, q.userId)
  \/ \E r \in Slots : MsCallbackStateDeleted(r)
  \/ \E r \in Slots, tokenResponse \in TokenResponses :
        exchangeCodeForTokenOk(r, tokenResponse)
  \/ \E r \in Slots : exchangeCodeForTokenFail(r)
  \/ \E r \in Slots : getMicrosoftUserInfoOk(r)
  \/ \E r \in Slots : getMicrosoftUserInfoFail(r)
  \/ \E r \in Slots : MsCallbackTokensStored(r)
  \/ \E r \in First, q \in GhCallbackRequests :
        GhCallback(r, q.state, q.code, q.error)
  \/ \E r \in Slots : fetchUpstreamAuthTokenOk(r)
  \/ \E r \in Slots : fetchUpstreamAuthTokenErr(r)
  \/ \E r \in Slots : getAuthenticatedOk(r)
  \/ \E r \in Slots : getAuthenticatedFail(r)
  \/ \E r \in Slots : refreshMicrosoftTokenOk(r)
  \/ \E r \in Slots : refreshMicrosoftTokenFail(r)
  \/ \E r \in Slots : getMicrosoftTokensPutOk(r)
  \/ \E r \in Slots : getMicrosoftTokensPutFail(r)

Spec == InitGh /\ [][Next]_vars

\* The same handlers with the scheduling the runtime gives: an awaited store
\* operation (get, put, delete on OAUTH_KV) resolves, so the handler's next
\* step is taken.  The answers of the providers (the fetch calls of lines 242,
\* 262, 291 of microsoft-handler.ts, fetchUpstreamAuthToken and Octokit in
\* github-handler.ts) come when the provider sends them: the calls are made
\* without a timeout or AbortSignal, and no step of the handlers stands for
\* one.
KvResolves ==
  \E r \in Slots :
    \/ MsCallbackStateDeleted(r)
    \/ MsCallbackTokensStored(r)
    \/ getMicrosoftTokensPutOk(r)
    \/ getMicrosoftTokensPutFail(r)

SpecWait == Spec /\ WF_vars(KvResolves)

\* ------------------- the secondary provider's handlers over a used store
\* The store holds what an earlier attempt has left: the pending state of an
\* authorize request made for bob whose callback has not come yet, and
\* bob's token record, inside the refresh margin.  The handlers and the
\* token cache run over it at one instant; the callback of the earlier
\* attempt may come too.
EarlierState == Nonce(0)
EarlierCallback ==
  [code |-> "code0", state |-> EarlierState, error |-> Undefined, userId |-> Undefined]

\* The provider's redirects with a code and a state, of the earlier attempt
\* and of the new ones.
FrameCallbacks ==
  {EarlierCallback} \cup {q \in MsCallbackRequests : ~Falsy(q.code) /\ Falsy(q.error)
                                                     /\ Falsy(q.userId) /\ q.state \in NonceIds}

InitFrame ==
  /\ now = 0
  /\ msTokens = [u \in Owners |->
                   IF u = "bob"
                   THEN TokenEntry([accessToken |-> AccessTok(0),
                                    refreshToken |-> RefreshTok(0), expiresAt |-> 0,
                                    userInfo |-> Profile], 0)
                   ELSE NoValue]
  /\ msState = [n \in NonceIds \cup {EarlierState} |->
                  IF n = EarlierState
                  THEN KvEntry([userId |-> "bob"], StateTtlSec, 0) ELSE NoValue]
  /\ req = [r \in Slots |-> Idle]
  /\ grants = 0
  /\ nonces = 0
  /\ consumed = {}
  /\ served = NoValue
  /\ env = FullEnv
  /\ thinking = NewSequentialThinkingState

NextFrame ==
  \/ \E userId \in UserIds : MsAuthorizeGet(userId, "valid")
  \/ \E r \in Slots, q \in FrameCallbacks :
        MsCallback(r, q.code, q.state, q.error, q.userId)
  \/ \E r \in Slots : MsCallbackStateDeleted(r)
  \/ \E r \in Slots, tokenResponse \in LongLived : exchangeCodeForTokenOk(r, tokenResponse)
  \/ \E r \in Slots : exchangeCodeForTokenFail(r)
  \/ \E r \in Slots : getMicrosoftUserInfoOk(r)
  \/ \E r \in Slots : getMicrosoftUserInfoFail(r)
  \/ \E r \in Slots : MsCallbackTokensStored(r)
  \/ \E r \in Slots, u \in Owners : getMicrosoftTokens(r, u)
  \/ \E r \in Slots : refreshMicrosoftTokenOk(r) /\ CallOf(r)'.newTokens \in LongLived
  \/ \E r \in Slots : refreshMicrosoftTokenFail(r)
  \/ \E r \in Slots : getMicrosoftTokensPutOk(r)
  \/ \E r \in Slots : getMicrosoftTokensPutFail(r)

SpecFrame == InitFrame /\ [][NextFrame]_vars

\* ------------------------- the pending states under the passing of time
\* The secondary provider's handlers, one callback at a time, with a clock
\* that runs: time passes whatever the handlers and the browser do, so the
\* clock's step is taken (weak fairness); a callback comes only if the
\* browser sends it, and the provider answers only if it does (no fairness).
\* The clock of the model stops at MaxTicks time-to-live periods, and the
\* authorize requests stop one period before it does.
NextExpire ==
  \/ \E userId \in UserIds :
        /\ now < MaxTicks * StateTtlSec * MsPerSec
        /\ MsAuthorizeGet(userId, "valid")
  \/ \E r \in First, q \in MsCallbackRequests :
        MsCallback(r, q.code, q.state, q.error, q.userId)
  \/ \E r \in Slots : MsCallbackStateDeleted(r)
  \/ \E r \in Slots, tokenResponse \in LongLived : exchangeCodeForTokenOk(r, tokenResponse)
  \/ \E r \in Slots : exchangeCodeForTokenFail(r)
  \/ \E r \in Slots : getMicrosoftUserInfoOk(r)
  \/ \E r \in Slots : getMicrosoftUserInfoFail(r)
  \/ \E r \in Slots : MsCallbackTokensStored(r)
  \/ TickTtl

SpecExpire == Init /\ [][NextExpire]_vars /\ WF_vars(TickTtl)

\* ------------------------------------------------------------- tools
\* The logins a session may have (props.login); Set.has compares exactly.
Logins == {"Pimmetjeoss", "pimmetjeoss", "alice"}
\* database-tools.ts lines 42-46, firecrawl-tools.ts lines 6-10 and
\* email-tools.ts lines 12-16: each module has its own ALLOWED_USERNAMES.
ALLOWED_USERNAMES == {"Pimmetjeoss"}
FIRECRAWL_ALLOWED_USERNAMES == {"Pimmetjeoss"}
EMAIL_ALLOWED_USERNAMES == {"Pimmetjeoss"}

\* database-tools.ts lines 48-446: the tools registerDatabaseTools registers.
registerDatabaseTools(login) ==
  {"listTables", "queryDatabase", "analyzeDatabase"}
    \cup (IF login \in ALLOWED_USERNAMES THEN {"executeDatabase"} ELSE {})

\* sequential-thinking-tool.ts line 71.
registerSequentialThinkingTool(login) == {"sequentialthinking"}

\* Mutant of firecrawl-tools.ts lines 241-244: the login is not looked at.
registerFirecrawlToolsUngated(login) ==
  {"crawlWebsite", "crawlJobStatus", "scrapePage", "mapWebsite", "searchWeb"}

\* firecrawl-tools.ts lines 239-836: nothing for a login outside the set.
registerFirecrawlTools(login) ==
  IF login \notin FIRECRAWL_ALLOWED_USERNAMES THEN {}
  ELSE {"crawlWebsite", "crawlJobStatus", "scrapePage", "mapWebsite", "searchWeb"}

\* email-tools.ts lines 22-172: nothing for a login outside the set.
registerEmailTools(login) ==
  IF login \notin EMAIL_ALLOWED_USERNAMES THEN {} ELSE {"sendEmail"}

\* register-tools.ts (part_003 lines 8-27): the tools of a session.
registerAllTools(login, thinkingState) ==
  registerDatabaseTools(login)
    \cup (IF thinkingState THEN registerSequentialThinkingTool(login) ELSE {})
    \cup registerFirecrawlTools(login)
    \cup registerEmailTools(login)

\* A session starts: its tools are registered for its login.
RegisterAllTools(login, thinkingState) ==
  /\ served' = [handler |-> "registerAllTools", login |-> login,
                thinkingState |-> thinkingState,
                tools |-> registerAllTools(login, thinkingState)]
  /\ req' = Sweep
  /\ UNCHANGED <<now, msTokens, msState, grants, nonces, consumed, env, thinking>>

\* ---- sendEmail
\* The session of the tool: registerEmailTools registers it for the logins of
\* its ALLOWED_USERNAMES only.  The props were filled by the primary callback:
\* with a Microsoft token and its expiry, or with neither.
EmailNow == 2 * RefreshMarginMs
EmailProps ==
  {[login |-> login, microsoftAccessToken |-> Undefined, microsoftTokenExpiry |-> NoNumber] :
     login \in EMAIL_ALLOWED_USERNAMES}
  \cup
  {[login |-> login, microsoftAccessToken |-> "props-token", microsoftTokenExpiry |-> exp] :
     login \in EMAIL_ALLOWED_USERNAMES,
     exp \in {NoNumber, Some(EmailNow - TickMs), Some(EmailNow + RefreshMarginMs)}}
\* The recipient lists a caller sends.  For to: "a@a.a", "a@a.a, a@a.a",
\* "a@a" (no dot), "a@a.a," (an empty piece) and "".  With a good to: a cc
\* that is an address or has a blank in it, and a bcc "@a.a".
Address == <<"a", "@", "a", ".", "a">>
EmailArgs ==
  [to : {Address, Address \o <<",", " ">> \o Address, <<"a", "@", "a">>,
         Address \o <<",">>, <<>>},
   cc : {<<>>}, bcc : {<<>>}]
  \cup [to : {Address}, cc : {Address, <<"a", " ">> \o Address}, bcc : {<<>>}]
  \cup [to : {Address}, cc : {<<>>, Address}, bcc : {<<"@", "a", ".", "a">>}]

\* What the secondary callback may have left under the login and under its
\* lowercase form: nothing, a record outside the margin, one to refresh, and
\* one that is past its expiry and has no refresh token.
EmailRecords ==
  {NoValue} \cup
  {TokenEntry([accessToken |-> AccessTok(0), refreshToken |-> rt, expiresAt |-> e,
               userInfo |-> Profile], 0) :
     rt \in {Undefined, RefreshTok(0)},
     e \in {EmailNow - TickMs, EmailNow + 2 * RefreshMarginMs}}

InitEmail ==
  /\ now = EmailNow
  /\ \E exact \in EmailRecords, lower \in EmailRecords :
       msTokens = [u \in {"Pimmetjeoss", "pimmetjeoss"} |->
                     IF u = "Pimmetjeoss" THEN exact ELSE lower]
  /\ msState = [n \in NonceIds |-> NoValue]
  /\ req = [r \in Slots |-> Idle]
  /\ grants = 0
  /\ nonces = 0
  /\ consumed = {}
  /\ served = NoValue
  /\ env = FullEnv
  /\ thinking = NewSequentialThinkingState

sendEmail(r, props, args) ==
  /\ FreeSlot(r)
  /\ req' = [Sweep EXCEPT ![r] = SendEmailGet(props, args, msTokens, now)]
  /\ UNCHANGED <<now, msTokens, msState, grants, nonces, consumed, env, thinking>>
  /\ served' = NoValue

sendEmailLowercase(r) ==
  /\ req[r].kind = "sendEmail" /\ req[r].pc = "lowercase"
  /\ req' = [Sweep EXCEPT ![r] = SendEmailLowercase(@, msTokens, now)]
  /\ UNCHANGED <<now, msTokens, msState, grants, nonces, consumed, env, thinking>>
  /\ served' = NoValue

graphSendMailOk(r) ==
  /\ req[r].kind = "sendEmail" /\ req[r].pc = "fetch"
  /\ req' = [Sweep EXCEPT ![r] = SendEmailOk(@)]
  /\ UNCHANGED <<now, msTokens, msState, grants, nonces, consumed, env, thinking>>
  /\ served' = NoValue

graphSendMailFail(r) ==
  /\ req[r].kind = "sendEmail" /\ req[r].pc = "fetch"
  /\ req' = [Sweep EXCEPT ![r] = SendEmailCatch(@)]
  /\ UNCHANGED <<now, msTokens, msState, grants, nonces, consumed, env, thinking>>
  /\ served' = NoValue

NextEmail ==
  \/ \E r \in First, props \in EmailProps, args \in EmailArgs : sendEmail(r, props, args)
  \/ \E r \in Slots : sendEmailLowercase(r)
  \/ \E r \in Slots : refreshMicrosoftTokenOk(r)
  \/ \E r \in Slots : refreshMicrosoftTokenFail(r)
  \/ \E r \in Slots : getMicrosoftTokensPutOk(r)
  \/ \E r \in Slots : getMicrosoftTokensPutFail(r)
  \/ \E r \in Slots : graphSendMailOk(r)
  \/ \E r \in Slots : graphSendMailFail(r)

SpecEmail == InitEmail /\ [][NextEmail]_vars

\* ---- queryDatabase
\* The SQL texts a caller sends.  database/security.ts is not among the
\* sources: a text is given with what validateSqlQuery and isWriteOperation
\* make of it.
SqlTexts ==
  {[text |-> "SELECT * FROM users", isValid |-> TRUE, isWrite |-> FALSE],
   [text |-> "INSERT INTO users VALUES (1)", isValid |-> TRUE, isWrite |-> TRUE],
   [text |-> "", isValid |-> FALSE, isWrite |-> FALSE],
   [text |-> "DROP TABLE users; --", isValid |-> FALSE, isWrite |-> TRUE]}
validateSqlQuery(sql) ==
  [isValid |-> sql.isValid, error |-> IF sql.isValid THEN Undefined ELSE "rejected"]
isWriteOperation(sql) == sql.isWrite

\* Mutant of database-tools.ts lines 122-127: the write test is left out.
QueryDatabaseGetNoWriteTest(sql) ==
  LET base == [kind |-> "queryDatabase", pc |-> "done", sql |-> sql, sent |-> <<>>,
               isError |-> FALSE, text |-> "none"]
  IN IF ~validateSqlQuery(sql).isValid
     THEN createErrorResponse(base, "Invalid SQL query")
     ELSE [base EXCEPT !.pc = "db", !.sent = <<sql.text>>]

\* database-tools.ts lines 114-130: the text is validated, then tested for a
\* write, then handed to db.unsafe.  sent is what went to the database.
QueryDatabaseGet(sql) ==
  LET base == [kind |-> "queryDatabase", pc |-> "done", sql |-> sql, sent |-> <<>>,
               isError |-> FALSE, text |-> "none"]
  IN IF ~validateSqlQuery(sql).isValid
     THEN createErrorResponse(base, "Invalid SQL query")
     ELSE IF isWriteOperation(sql)
     THEN createErrorResponse(base, "Write operations are not allowed with this tool")
     ELSE [base EXCEPT !.pc = "db", !.sent = <<sql.text>>]

\* lines 130-140: db.unsafe gave the rows.
QueryDatabaseResults(rq) ==
  [rq EXCEPT !.pc = "done", !.isError = FALSE, !.text = "Query Results"]

\* lines 141-144: withDatabase or db.unsafe threw.
QueryDatabaseCatch(rq) == createErrorResponse(rq, "Database query error")

queryDatabase(r, sql) ==
  /\ FreeSlot(r)
  /\ req' = [Sweep EXCEPT ![r] = QueryDatabaseGet(sql)]
  /\ UNCHANGED <<now, msTokens, msState, grants, nonces, consumed, env, thinking>>
  /\ served' = NoValue

dbUnsafeOk(r) ==
  /\ req[r].kind = "queryDatabase" /\ req[r].pc = "db"
  /\ req' = [Sweep EXCEPT ![r] = QueryDatabaseResults(@)]
  /\ UNCHANGED <<now, msTokens, msState, grants, nonces, consumed, env, thinking>>
  /\ served' = NoValue

dbUnsafeFail(r) ==
  /\ req[r].kind = "queryDatabase" /\ req[r].pc = "db"
  /\ req' = [Sweep EXCEPT ![r] = QueryDatabaseCatch(@)]
  /\ UNCHANGED <<now, msTokens, msState, grants, nonces, consumed, env, thinking>>
  /\ served' = NoValue

\* ---- withRetry
\* firecrawl-tools.ts lines 13-19: CONFIG.retry.
maxAttempts == 3
initialDelay == 1000
maxDelay == 10000
backoffFactor == 2

\* What an operation may throw.  instanceOfError says whether the value is an
\* Error; message is given by the texts of interest it includes
\* (String.includes is exact in case); response is the HTTP response of the
\* client's error, if it has one.
Thrown ==
  {[instanceOfError |-> TRUE, message |-> {"rate limit"}, response |-> NoValue],
   [instanceOfError |-> TRUE, message |-> {"429"}, response |-> NoValue],
   [instanceOfError |-> TRUE, message |-> {"failed"}, response |-> [status |-> 429]],
   [instanceOfError |-> TRUE, message |-> {"Rate limit"}, response |-> [status |-> 500]],
   [instanceOfError |-> FALSE, message |-> {}, response |-> [status |-> 429]]}

\* lines 40-43.
isRateLimit(error) ==
  /\ error.instanceOfError
  /\ \/ "rate limit" \in error.message
     \/ "429" \in error.message
     \/ error.response # NoValue /\ error.response.status = 429

Min(a, b) == IF a <= b THEN a ELSE b
RECURSIVE Pow(_, _)
Pow(b, n) == IF n = 0 THEN 1 ELSE b * Pow(b, n - 1)
\* lines 46-49.
DelayMs(attempt) == Min(initialDelay * Pow(backoffFactor, attempt - 1), maxDelay)

\* lines 32-37: withRetry(operation, context, attempt) calls the operation.
\* calls counts the invocations of the operation that this withRetry (with
\* its recursive calls) has made, waited the delays it has awaited.
WithRetryCall(attempt, calls, waited) ==
  [kind |-> "withRetry", pc |-> "operation", attempt |-> attempt, calls |-> calls + 1,
   waited |-> waited, outcome |-> "none", error |-> NoValue]

\* line 37: the operation returned; its result is returned.
WithRetryReturn(rq) == [rq EXCEPT !.pc = "done", !.outcome = "returned"]

\* Mutant of line 45: every error is retried.
WithRetryCatchAll(rq, error) ==
  IF rq.attempt < maxAttempts
  THEN [rq EXCEPT !.pc = "delay", !.error = error]
  ELSE [rq EXCEPT !.pc = "done", !.outcome = "thrown", !.error = error]

\* lines 38-57: the operation threw.  A rate-limit error before the last
\* attempt is followed by the delay; every other error is thrown on.
WithRetryCatch(rq, error) ==
  IF isRateLimit(error) /\ rq.attempt < maxAttempts
  THEN [rq EXCEPT !.pc = "delay", !.error = error]
  ELSE [rq EXCEPT !.pc = "done", !.outcome = "thrown", !.error = error]

withRetry(r) ==
  /\ FreeSlot(r)
  /\ req' = [Sweep EXCEPT ![r] = WithRetryCall(1, 0, <<>>)]
  /\ UNCHANGED <<now, msTokens, msState, grants, nonces, consumed, env, thinking>>
  /\ served' = NoValue

operationReturns(r) ==
  /\ req[r].kind = "withRetry" /\ req[r].pc = "operation"
  /\ req' = [Sweep EXCEPT ![r] = WithRetryReturn(@)]
  /\ UNCHANGED <<now, msTokens, msState, grants, nonces, consumed, env, thinking>>
  /\ served' = NoValue

operationThrows(r, error) ==
  /\ req[r].kind = "withRetry" /\ req[r].pc = "operation"
  /\ req' = [Sweep EXCEPT ![r] = WithRetryCatch(@, error)]
  /\ UNCHANGED <<now, msTokens, msState, grants, nonces, consumed, env, thinking>>
  /\ served' = NoValue

\* lines 52-53: the delay has passed; withRetry calls itself with attempt + 1.
delayElapsed(r) ==
  /\ req[r].kind = "withRetry" /\ req[r].pc = "delay"
  /\ req' = [Sweep EXCEPT ![r] =
               WithRetryCall(req[r].attempt + 1, req[r].calls,
                             Append(req[r].waited, DelayMs(req[r].attempt)))]
  /\ UNCHANGED <<now, msTokens, msState, grants, nonces, consumed, env, thinking>>
  /\ served' = NoValue

\* ------------------------------------- the specification of the tools
NextTools ==
  \/ \E login \in Logins, thinkingState \in BOOLEAN : RegisterAllTools(login, thinkingState)
  \/ \E r \in Slots, sql \in SqlTexts : queryDatabase(r, sql)
  \/ \E r \in Slots : dbUnsafeOk(r)
  \/ \E r \in Slots : dbUnsafeFail(r)
  \/ \E r \in Slots : withRetry(r)
  \/ \E r \in Slots : operationReturns(r)
  \/ \E r \in Slots, error \in Thrown : operationThrows(r, error)
  \/ \E r \in Slots : delayElapsed(r)

SpecTools == Init /\ [][NextTools]_vars

\* The tools where every operation that was called terminates (it returns or
\* throws) and every timer that delay() set fires (line 28, setTimeout).
OperationSettles(r) ==
  operationReturns(r) \/ \E error \in Thrown : operationThrows(r, error)

SpecRetry ==
  /\ SpecTools
  /\ \A r \in Slots : WF_vars(OperationSettles(r)) /\ WF_vars(delayElapsed(r))

\* ---- sequentialthinking (sequential-thinking-tool.ts)
\* Map.get / Map.set; a plain object used as a dictionary is a Map of its own
\* keys.
MapHas(m, k) == k \in DOMAIN m
MapSet(m, k, v) == [x \in DOMAIN m \cup {k} |-> IF x = k THEN v ELSE m[x]]

\* The users of one SequentialThinkingState (props.login of the sessions).
ThinkingLogins == {"Pimmetjeoss", "alice"}
\* A name that every object inherits from Object.prototype: userBranches[name]
\* is truthy (a function) although the object has no such key of its own.
InheritedKeys == {"constructor"}
\* The arguments the schema of lines 52-62 lets through: thoughtNumber and
\* totalThoughts at least 1, in either order; with or without a branch
\* point; with no branch id, an empty one, ordinary ones and an inherited
\* name.  isRevision, revisesThought and needsMoreThoughts are copied into the
\* thought and read by nothing but the log line; they are left out.
ThoughtArgs ==
  {[thought |-> "t", thoughtNumber |-> n[1], totalThoughts |-> n[2],
    nextThoughtNeeded |-> TRUE, branchFromThought |-> b[1], branchId |-> b[2]] :
     n \in {<<1, 2>>, <<2, 1>>},
     b \in {<<NoNumber, Undefined>>, <<NoNumber, "b1">>, <<Some(1), "">>,
            <<Some(1), "b1">>, <<Some(1), "b2">>, <<Some(1), "constructor">>}}

\* Mutant of lines 104-106: totalThoughts is left as it came.
AdjustTotalThoughtsNot(thoughtData) == thoughtData

\* lines 104-106: totalThoughts is raised to thoughtNumber.
AdjustTotalThoughts(thoughtData) ==
  IF thoughtData.thoughtNumber > thoughtData.totalThoughts
  THEN [thoughtData EXCEPT !.totalThoughts = thoughtData.thoughtNumber]
  ELSE thoughtData

\* lines 42-48: getUserThoughts and getUserBranches.
getUserThoughts(state, userId) ==
  IF MapHas(state.thoughtHistory, userId) THEN state.thoughtHistory[userId] ELSE <<>>
getUserBranches(state, userId) ==
  IF MapHas(state.branches, userId) THEN state.branches[userId] ELSE EmptyMap

\* Mutant of lines 24-28: one history for all users.
addThoughtShared(state, userId, thought) ==
  [state |-> [state EXCEPT
                !.thoughtHistory =
                   [u \in ThinkingLogins |->
                      Append(getUserThoughts(state, u), thought)]],
   threw |-> FALSE]

\* lines 23-40: addThought.  The thought is pushed on the user's history; a
\* thought with a branch point and a branch id is pushed on the user's list of
\* that branch too.  For an inherited name the test of line 35 finds a value,
\* no list is made, and push at line 38 throws a TypeError, after the
\* history and the user's branches object have been written.
addThought(state, userId, thought) ==
  LET h1 == IF MapHas(state.thoughtHistory, userId) THEN state.thoughtHistory
            ELSE MapSet(state.thoughtHistory, userId, <<>>)
      h2 == MapSet(h1, userId, Append(h1[userId], thought))
      b1 == IF MapHas(state.branches, userId) THEN state.branches
            ELSE MapSet(state.branches, userId, EmptyMap)
      userBranches == b1[userId]
      u1 == IF MapHas(userBranches, thought.branchId) THEN userBranches
            ELSE MapSet(userBranches, thought.branchId, <<>>)
      u2 == MapSet(u1, thought.branchId, Append(u1[thought.branchId], thought))
  IN IF ~(TruthyNumber(thought.branchFromThought) /\ ~Falsy(thought.branchId))
     THEN [state |-> [thoughtHistory |-> h2, branches |-> state.branches],
           threw |-> FALSE]
     ELSE IF thought.branchId \in InheritedKeys
     THEN [state |-> [thoughtHistory |-> h2, branches |-> b1], threw |-> TRUE]
     ELSE [state |-> [thoughtHistory |-> h2, branches |-> MapSet(b1, userId, u2)],
           threw |-> FALSE]

\* lines 88-147: the handler's answer: the numbers of the thought, the ids of
\* the user's branches (Object.keys) and the length of the user's history; or
\* the error of the catch.
SequentialThinkingResponse(login, thoughtData, result) ==
  IF result.threw
  THEN [handler |-> "sequentialthinking", login |-> login, isError |-> TRUE,
        status |-> "failed"]
  ELSE [handler |-> "sequentialthinking", login |-> login, isError |-> FALSE,
        thoughtNumber |-> thoughtData.thoughtNumber,
        totalThoughts |-> thoughtData.totalThoughts,
        nextThoughtNeeded |-> thoughtData.nextThoughtNeeded,
        branches |-> DOMAIN getUserBranches(result.state, login),
        thoughtHistoryLength |-> Len(getUserThoughts(result.state, login))]

\* The thoughts the state holds, over all users.
RECURSIVE ThoughtCount(_, _)
ThoughtCount(state, users) ==
  IF users = {} THEN 0
  ELSE LET u == CHOOSE x \in users : TRUE
       IN Len(getUserThoughts(state, u)) + ThoughtCount(state, users \ {u})

\* The handler has no await: a call is one step.
sequentialthinking(login, args) ==
  /\ ThoughtCount(thinking, ThinkingLogins) < MaxThoughts
  /\ LET thoughtData == AdjustTotalThoughts(args)
         result == addThought(thinking, login, thoughtData)
     IN /\ thinking' = result.state
        /\ served' = SequentialThinkingResponse(login, thoughtData, result)
  /\ req' = Sweep
  /\ UNCHANGED <<now, msTokens, msState, grants, nonces, consumed, env>>

NextThinking ==
  \E login \in ThinkingLogins, args \in ThoughtArgs : sequentialthinking(login, args)

SpecThinking == Init /\ [][NextThinking]_vars

\* ------------------------------------------------------------ claims
\* A call returns in this step.
Returns(r) == req'[r] # req[r] /\ CallOf(r)'.pc = "done"
\* A call starts in this step: KV.get resolves and line 327 is evaluated at now.
Starts(r) ==
  /\ req'[r] # req[r] /\ CallOf(r)'.pc # "none"
  /\ Free(r) \/ CallOf(r).pc = "none"

\* C1: a call that read a record whose expiresAt is more than five minutes
\* after the current time has returned, with accessToken, refreshToken and
\* expiresAt as stored, and has made no refresh grant and no store write.
C1_FreshReturnedUnchanged ==
  \A r \in Slots :
    LET c == CallOf(r) IN
    (c.pc # "none" /\ c.stored # NoValue /\ c.stored.expiresAt > now + RefreshMarginMs)
      => /\ c.pc = "done"
         /\ c.result = ReturnValue(c.stored)
         /\ c.refreshCalls = 0
         /\ c.kvWrites = 0

C1_Witness ==
  \E r \in Slots :
    /\ CallOf(r).pc = "done" /\ CallOf(r).path = "fresh"
    /\ CallOf(r).stored.refreshToken # Undefined
    /\ CallOf(r).stored.expiresAt > now + RefreshMarginMs
    /\ CallOf(r).result.expiresAt = CallOf(r).stored.expiresAt

\* C2 as stated: a call that reads a record with a refresh token and an
\* expiresAt less than five minutes away makes exactly one refresh grant, and
\* when the grant succeeds it returns an expiresAt strictly later than the
\* stored one, whatever expires_in is.
C2_Original ==
  [][\A r \in Slots :
       LET c == CallOf(r)
           d == CallOf(r)' IN
       /\ (Starts(r) /\ d.stored # NoValue /\ d.stored.refreshToken # Undefined
             /\ d.stored.expiresAt < now + RefreshMarginMs)
            => d.pc = "refresh" /\ d.refreshCalls = 1
       /\ c.pc \in {"refresh", "put"} => d.refreshCalls = 1
       /\ (Returns(r) /\ d.path \in {"refreshed", "put_failed"})
            => d.result.expiresAt > d.stored.expiresAt]_vars

\* C2 amended: exactly one refresh grant; when it succeeds the returned
\* expiresAt is the time the response was handled plus expires_in * 1000 ms,
\* strictly later than the stored one whenever expires_in is at least the
\* margin (300 s).
C2_RefreshOnceAndLater ==
  [][\A r \in Slots :
       LET c == CallOf(r)
           d == CallOf(r)' IN
       /\ (Starts(r) /\ d.stored # NoValue /\ d.stored.refreshToken # Undefined
             /\ d.stored.expiresAt < now + RefreshMarginMs)
            => d.pc = "refresh" /\ d.refreshCalls = 1
       /\ c.pc \in {"refresh", "put"} => d.refreshCalls = 1
       /\ (c.pc = "refresh" /\ d.pc = "put")
            => d.tokens.expiresAt = now + d.newTokens.expires_in * MsPerSec
       /\ (Returns(r) /\ d.path \in {"refreshed", "put_failed"})
            => /\ d.result.expiresAt = c.tokens.expiresAt
               /\ d.newTokens.expires_in * MsPerSec >= RefreshMarginMs
                    => d.result.expiresAt > d.stored.expiresAt]_vars

C2_Witness ==
  \E r \in Slots :
    /\ CallOf(r).pc = "done" /\ CallOf(r).path = "refreshed"
    /\ CallOf(r).refreshCalls = 1
    /\ CallOf(r).newTokens.expires_in * MsPerSec >= RefreshMarginMs
    /\ CallOf(r).result.expiresAt > CallOf(r).stored.expiresAt

\* C3 as stated: every record getMicrosoftTokens returns has an expiresAt at
\* least five minutes after the time of the return.
C3_Original ==
  [][\A r \in Slots :
       (Returns(r) /\ CallOf(r)'.result # NoValue)
         => CallOf(r)'.result.expiresAt >= now' + RefreshMarginMs]_vars

\* C3 amended: a record with a refresh token that is returned without a
\* refresh has an expiresAt at least five minutes after the return; after a
\* successful refresh the new expiresAt is at least five minutes after the
\* time the response was handled when expires_in is at least 300 s.  (A record
\* without refresh token, or returned after a failed refresh, is returned as
\* stored, whatever its expiresAt.)
C3_MarginWhereGuaranteed ==
  [][\A r \in Slots :
       LET c == CallOf(r)
           d == CallOf(r)' IN
       /\ (Returns(r) /\ d.path = "fresh" /\ d.result.refreshToken # Undefined)
            => d.result.expiresAt >= now' + RefreshMarginMs
       /\ (c.pc = "refresh" /\ d.pc = "put"
             /\ d.newTokens.expires_in * MsPerSec >= RefreshMarginMs)
            => d.tokens.expiresAt >= now' + RefreshMarginMs
       /\ (Returns(r) /\ d.path \in {"refreshed", "put_failed"})
            => d.result = ReturnValue(c.tokens)
       /\ (Returns(r) /\ d.path = "refresh_failed")
            => d.result = ReturnValue(d.stored)
       /\ (Returns(r) /\ d.path = "fresh") => d.result = ReturnValue(d.stored)]_vars

C3_Witness ==
  \E r \in Slots :
    /\ CallOf(r).pc = "done" /\ CallOf(r).path = "fresh"
    /\ CallOf(r).result.refreshToken # Undefined
    /\ CallOf(r).result.expiresAt = now + RefreshMarginMs

\* C4: when the refresh grant fails the call raises nothing, returns the
\* record as it was stored, and writes nothing to the store.
C4_RefreshFailureSwallowed ==
  [][\A r \in Slots :
       LET c == CallOf(r)
           d == CallOf(r)' IN
       (c.pc = "refresh" /\ d.pc = "done")
         => /\ d.path = "refresh_failed"
            /\ ~d.raised
            /\ d.result = ReturnValue(c.stored)
            /\ d.kvWrites = 0
            /\ msTokens' = msTokens]_vars

C4_Witness ==
  \E r \in Slots :
    /\ CallOf(r).pc = "done" /\ CallOf(r).path = "refresh_failed"
    /\ CallOf(r).result = ReturnValue(CallOf(r).stored)
    /\ msTokens[CallOf(r).userId].value = CallOf(r).stored

\* C5: after a successful refresh the persisted and returned record keeps the
\* stored refresh token when the response has none and holds the response's
\* when it has one; accessToken and expiresAt are the new ones.
RefreshTokenAfter(c) ==
  IF c.newTokens.refresh_token = Undefined
  THEN c.stored.refreshToken ELSE c.newTokens.refresh_token

C5_RefreshTokenCarriedForward ==
  [][\A r \in Slots :
       LET c == CallOf(r)
           d == CallOf(r)'
           written == msTokens'[c.userId].value IN
       /\ (c.pc = "refresh" /\ d.pc = "put")
            => d.tokens.expiresAt = now + d.newTokens.expires_in * MsPerSec
       /\ (c.pc = "put" /\ d.path = "refreshed")
            => /\ written.refreshToken = RefreshTokenAfter(c)
               /\ written.accessToken = c.newTokens.access_token
               /\ written.accessToken # c.stored.accessToken
               /\ written.expiresAt = c.tokens.expiresAt
               /\ written.userInfo = c.stored.userInfo
               /\ d.result = ReturnValue(written)]_vars

C5_Witness ==
  \E r \in Slots :
    /\ CallOf(r).pc = "done" /\ CallOf(r).path = "refreshed"
    /\ CallOf(r).newTokens.refresh_token = Undefined
    /\ CallOf(r).result.refreshToken = CallOf(r).stored.refreshToken
    /\ CallOf(r).result.accessToken = CallOf(r).newTokens.access_token
    /\ msTokens[CallOf(r).userId].value.refreshToken = CallOf(r).stored.refreshToken

\* A GET /microsoft/callback arrives in this step and is given slot r.
MsArrives(r) == req'[r] # req[r] /\ Free(r) /\ req'[r].kind = "ms_callback"
\* The store has no live pending entry under the state: none was ever put
\* there, it has been deleted, or its ten minutes have passed.
NoPending(state) ==
  \/ state \notin DOMAIN msState
  \/ msState[state] = NoValue
  \/ now >= msState[state].expiration * MsPerSec
\* The answers of GET /microsoft/callback that are no success.
MsErrorBodies ==
  {"Authorization Failed", "Missing code or state parameter",
   "Invalid or expired state parameter"}

\* C6: a callback that arrives with a state which an earlier callback has read
\* and deleted finds no pending state: it is answered at once with an error
\* (status 500, "Invalid or expired state parameter", when it has a code and no
\* provider error), makes no token exchange and writes no token record.
C6_NonceSingleUse ==
  \A r \in Slots :
    (req[r].kind = "ms_callback" /\ req[r].afterConsumed)
      => /\ req[r].pc = "done"
         /\ ~req[r].stateFound
         /\ req[r].body \in MsErrorBodies
         /\ (~Falsy(req[r].code) /\ Falsy(req[r].error))
              => /\ req[r].status = 500
                 /\ req[r].body = "Invalid or expired state parameter"
         /\ req[r].exchange = "none"
         /\ req[r].tokenData = NoValue
         /\ req[r].kvWrites = 0

C6_Witness ==
  \E r \in Slots :
    /\ req[r].kind = "ms_callback" /\ req[r].afterConsumed
    /\ req[r].state \in consumed
    /\ ~Falsy(req[r].code) /\ Falsy(req[r].error)
    /\ req[r].status = 500 /\ req[r].exchange = "none"

C8_MissingStateIs400 ==
  \A r \in Slots :
    (req[r].kind = "gh_callback" /\ req[r].stateParam = NoValue)
      => /\ req[r].pc = "done"
         /\ req[r].status = 400
         /\ req[r].body = "Missing state parameter"
         /\ req[r].exchange = "none"
         /\ req[r].identity = "none"
         /\ req[r].call = NoCall
         /\ req[r].completions = 0

C8_Witness ==
  \E r \in Slots :
    /\ req[r].kind = "gh_callback" /\ req[r].stateParam = NoValue
    /\ ~Falsy(req[r].code)
    /\ req[r].status = 400 /\ req[r].exchange = "none"

\* C9 as stated, for GET /callback: the code is handed to the token exchange
\* only when the request carries a code, a decodable state and no provider
\* error parameter.
C9_ExchangeOnlyWithCodeStateNoError ==
  \A r \in Slots :
    (req[r].kind = "gh_callback" /\ req[r].exchange # "none")
      => /\ ~Falsy(req[r].code)
         /\ Falsy(req[r].error)
         /\ req[r].decoded

\* C10: completeAuthorization is called (GET /callback) and the token record
\* is written (GET /microsoft/callback) only after the token exchange and the
\* identity retrieval have both succeeded; a handler whose exchange or identity
\* retrieval failed has answered with an error and has done neither.
C10_CompletedOnlyAfterBothSucceed ==
  \A r \in Slots :
    /\ req[r].kind = "gh_callback"
         => /\ (req[r].completions > 0 \/ req[r].call # NoCall)
                 => req[r].exchange = "ok" /\ req[r].identity = "ok"
            /\ req[r].completions <= 1
            /\ (req[r].exchange = "failed" \/ req[r].identity = "failed")
                 => /\ req[r].pc = "done" /\ req[r].status >= 400
                    /\ req[r].completions = 0 /\ req[r].completed = NoValue
    /\ req[r].kind = "ms_callback"
         => /\ (req[r].kvWrites > 0 \/ req[r].pc = "put")
                 => req[r].exchange = "ok" /\ req[r].identity = "ok"
            /\ req[r].kvWrites <= 1
            /\ (req[r].exchange = "failed" \/ req[r].identity = "failed")
                 => /\ req[r].pc = "done" /\ req[r].status = 500
                    /\ req[r].kvWrites = 0

\* bob's record is in the store, written by a secondary callback, and a
\* primary callback for bob has completed with it.
C10_Witness ==
  \E r \in Slots :
    /\ req[r].kind = "gh_callback" /\ req[r].completions = 1
    /\ req[r].exchange = "ok" /\ req[r].identity = "ok"
    /\ req[r].login = "bob" /\ msTokens["bob"] # NoValue
    /\ req[r].completed.props.microsoftAccessToken
         = msTokens["bob"].value.accessToken

\* A one-step handler has just answered.
Served(handler) == served # NoValue /\ served.handler = handler
Redirects(answer) == answer.status = 302 /\ answer.location # NoHeader

\* C11: GET /authorize with a client id answers with the 302 to the provider
\* exactly when the approval cookie verifies for that client id, and with the
\* consent dialog and no redirect when the cookie is absent or does not
\* verify; without client id the answer is 400, neither redirect nor dialog.
C11_RedirectIffCookieVerifies ==
  Served("GET /authorize") =>
    LET clientId == served.request.oauthReqInfo.clientId
        cookie == served.request.cookie IN
    /\ Falsy(clientId)
         => /\ served.status = 400 /\ served.location = NoHeader
            /\ served.body # "renderApprovalDialog"
    /\ ~Falsy(clientId)
         => /\ Redirects(served) <=> cookie = "valid"
            /\ cookie # "valid"
                 => /\ served.status = 200 /\ served.body = "renderApprovalDialog"
                    /\ served.location = NoHeader
            /\ cookie = "valid"
                 => served.location.endpoint = "https://github.com/login/oauth/authorize"

C11_Witness ==
  /\ Served("GET /authorize")
  /\ served.request.oauthReqInfo.clientId = "abc123"
  /\ served.request.cookie = "tampered"
  /\ served.body = "renderApprovalDialog" /\ ~Redirects(served)

\* GET /authorize has answered a request that has a client id and an approval
\* cookie that verifies.
ApprovedGet ==
  /\ Served("GET /authorize")
  /\ ~Falsy(served.request.oauthReqInfo.clientId)
  /\ served.request.cookie = "valid"

\* A state parameter that is not the empty string: base64 of some text.
NonEmptyState(state) == state.b64 /\ state.json.kind # "invalid"

\* C12 as stated: with a valid approval cookie the answer is a 302 whose
\* authorize URL has client_id equal to the requesting client's id and a
\* non-empty state.
C12_Original ==
  ApprovedGet =>
    /\ Redirects(served)
    /\ served.location.client_id = served.request.oauthReqInfo.clientId
    /\ NonEmptyState(served.location.state)

\* C12 amended: with a valid approval cookie the answer is a 302 to GitHub's
\* authorize endpoint whose client_id is the server's own GITHUB_CLIENT_ID and
\* whose state is non-empty: it is the encoded request, and decodes to a
\* record with the requesting client's id.
C12_RedirectCarriesServerIdAndState ==
  ApprovedGet =>
    /\ Redirects(served)
    /\ served.location.endpoint = "https://github.com/login/oauth/authorize"
    /\ served.location.client_id = GITHUB_CLIENT_ID
    /\ NonEmptyState(served.location.state)
    /\ served.location.state = EncodeState(served.request.oauthReqInfo)
    /\ DecodeState(served.location.state).ok
    /\ ClientIdOf(DecodeState(served.location.state).value)
         = served.request.oauthReqInfo.clientId

C12_Witness ==
  /\ ApprovedGet
  /\ served.request.oauthReqInfo.clientId = "abc123"
  /\ served.status = 302
  /\ served.location.client_id # "abc123"
  /\ ClientIdOf(DecodeState(served.location.state).value) = "abc123"

\* C13 as stated: a POST to an authorize endpoint that carries a denial is not
\* answered with the redirect to the provider and sets no approval cookie, at
\* POST /authorize and at POST /microsoft/authorize.
C13_DenialEndsInFailed ==
  /\ (Served("POST /authorize") /\ served.request.decision = "deny")
       => ~Redirects(served) /\ served.setCookie = NoHeader
  /\ (Served("POST /microsoft/authorize") /\ ~served.request.state.approved)
       => ~Redirects(served) /\ served.setCookie = NoHeader

\* The authorization requests GET /authorize lets through (line 19).
ValidAuthRequests == {q \in AuthRequests : ~Falsy(q.clientId)}
\* One more layer of percent-encoding, put on by a redirect on the way.
PercentEncoded(state) == [state EXCEPT !.pct = @ + 1]

Malformed(stateParam) ==
  /\ stateParam # NoValue
  /\ stateParam.pct > 1 \/ ~stateParam.b64 \/ stateParam.json.kind # "object"

\* C15 as stated: GET /callback answers every malformed state with 400, no
\* exception leaves the decode step, and the token exchange is not attempted.
C15_MalformedStateIs400 ==
  \A r \in Slots :
    (req[r].kind = "gh_callback" /\ Malformed(req[r].stateParam))
      => /\ req[r].pc = "done"
         /\ req[r].status = 400
         /\ req[r].exchange = "none"

\* A state string that decodes to a record whose clientId is missing or empty.
NamesNoClient(stateParam) ==
  /\ stateParam # NoValue
  /\ stateParam.pct <= 1 /\ stateParam.b64 /\ stateParam.json.kind = "object"
  /\ Falsy(stateParam.json.obj.clientId)

\* C16: a state that decodes to a record with a missing or empty clientId is
\* answered with 400 before any token exchange, identity lookup, token lookup,
\* completeAuthorization or redirect.
C16_NoClientIdIs400 ==
  \A r \in Slots :
    (req[r].kind = "gh_callback" /\ NamesNoClient(req[r].stateParam))
      => /\ req[r].pc = "done"
         /\ req[r].status = 400
         /\ req[r].body = "Invalid state - missing clientId"
         /\ req[r].exchange = "none"
         /\ req[r].identity = "none"
         /\ req[r].call = NoCall
         /\ req[r].completions = 0
         /\ req[r].completed = NoValue

C16_Witness ==
  \E r \in Slots :
    /\ req[r].kind = "gh_callback"
    /\ NamesNoClient(req[r].stateParam)
    /\ req[r].stateParam.json.obj.clientId = ""
    /\ req[r].code = "code1"
    /\ req[r].status = 400

\* C17: GET /microsoft/authorize without a userId answers 400, writes no
\* pending entry and shows neither the redirect nor the dialog; with a userId
\* the entry that maps the generated state to that userId, with the ten
\* minutes' lifetime, is in the store when the answer is given, and nothing
\* else in the store has changed.
C17_PendingEntryBeforeAnswer ==
  [][Served("GET /microsoft/authorize")' =>
       IF Falsy(served'.userId)
       THEN /\ served'.status = 400
            /\ served'.body = "Missing userId parameter"
            /\ msState' = msState
            /\ nonces' = nonces
       ELSE /\ served'.status \in {200, 302}
            /\ served'.body \in {"renderApprovalDialog", "redirectToMicrosoft"}
            /\ served'.state \in NonceIds
            /\ msState' = [msState EXCEPT ![served'.state] =
                             KvEntry([userId |-> served'.userId], StateTtlSec, now)]
            /\ KvGet(msState', served'.state, now') = [userId |-> served'.userId]]_vars

C17_Witness ==
  /\ Served("GET /microsoft/authorize")
  /\ served.status = 302
  /\ served.userId = "bob"
  /\ KvGet(msState, served.state, now) = [userId |-> "bob"]

\* The steps of a GET /microsoft/callback in slot r from one position to the next.
MsStep(r, from, to) ==
  /\ req[r].kind = "ms_callback" /\ req[r].pc = from
  /\ req'[r].kind = "ms_callback" /\ req'[r].pc = to

\* C18: a GET /microsoft/callback that succeeds writes exactly one token
\* record, under the key of the owner stored in the pending state and not of
\* an identity named by the callback request; the record holds the access and
\* refresh token of the exchange response and expiresAt = the time it was
\* built + expires_in * 1000.
C18_OneRecordUnderPendingOwner ==
  [][/\ \A r \in Slots :
          /\ (MsArrives(r) /\ req'[r].stateFound)
                => req'[r].userId = KvGet(msState, req'[r].state, now).userId
          /\ (req[r].kind = "ms_callback" /\ req'[r].kind = "ms_callback"
                /\ ~MsArrives(r))
                => req'[r].userId = req[r].userId
          /\ MsStep(r, "userinfo", "put")
                => /\ req'[r].tokenData.accessToken = req[r].tokenResponse.access_token
                   /\ req'[r].tokenData.refreshToken = req[r].tokenResponse.refresh_token
                   /\ req'[r].tokenData.expiresAt =
                        now + req[r].tokenResponse.expires_in * 1000
          /\ MsStep(r, "put", "done")
                => /\ req'[r].status = 200
                   /\ req'[r].kvWrites = 1
                   /\ req'[r].tokenData = req[r].tokenData
                   /\ msTokens' = [msTokens EXCEPT ![req[r].userId] =
                                     KvEntry(req[r].tokenData, TokenTtlSec, now)]
          /\ (req'[r].kind = "ms_callback" /\ req'[r].pc = "done"
                /\ req'[r].kvWrites > 0)
                => MsStep(r, "put", "done")
     /\ msTokens' # msTokens => \E r \in Slots : MsStep(r, "put", "done")]_vars

C18_Witness ==
  \E r \in Slots :
    /\ req[r].kind = "ms_callback" /\ req[r].pc = "done"
    /\ req[r].status = 200 /\ req[r].kvWrites = 1
    /\ req[r].userId = "alice" /\ req[r].userIdQuery = "bob"
    /\ msTokens["alice"] # NoValue
    /\ msTokens["alice"].value = req[r].tokenData
    /\ msTokens["bob"] = NoValue

\* C19 as stated: when GET /microsoft/callback fails after it found the pending
\* state, the retry link of the error page carries the userId of the owner
\* stored in that state.
C19_RetryLinkNamesPendingOwner ==
  \A r \in Slots :
    (req[r].kind = "ms_callback" /\ req[r].pc = "done" /\ req[r].status = 500
      /\ req[r].stateFound)
      => req[r].retryUserId = req[r].userId

\* The steps of the getMicrosoftTokens call of slot r from one position to the next.
GmtStep(r, from, to) == CallOf(r).pc = from /\ CallOf(r)'.pc = to

\* C20 as stated: every token record that the secondary callback or a refresh
\* builds for the store has an expiresAt strictly greater than the time at
\* which it is built, whatever expires_in the provider returned.
C20_Original ==
  [][\A r \in Slots :
       /\ MsStep(r, "userinfo", "put") => req'[r].tokenData.expiresAt > now
       /\ GmtStep(r, "refresh", "put") => CallOf(r)'.tokens.expiresAt > now]_vars

\* C20 amended: the expiresAt of every token record written to the store, by
\* the secondary callback or by a refresh, is the time at which the record was
\* built + expires_in * 1000; it is strictly greater than that time exactly
\* when expires_in is positive.  The store changes only by these two writes,
\* and each writes the record as it was built.
C20_ExpiresAtIsIssuancePlusLifetime ==
  [][/\ \A r \in Slots :
          /\ MsStep(r, "userinfo", "put")
                => /\ req'[r].tokenData.expiresAt =
                        now + req[r].tokenResponse.expires_in * 1000
                   /\ req'[r].tokenData.expiresAt > now
                        <=> req[r].tokenResponse.expires_in > 0
          /\ MsStep(r, "put", "done")
                => /\ msTokens'[req[r].userId] # NoValue
                   /\ msTokens'[req[r].userId].value = req[r].tokenData
          /\ GmtStep(r, "refresh", "put")
                => /\ CallOf(r)'.tokens.expiresAt =
                        now + CallOf(r)'.newTokens.expires_in * 1000
                   /\ CallOf(r)'.tokens.expiresAt > now
                        <=> CallOf(r)'.newTokens.expires_in > 0
          /\ (GmtStep(r, "put", "done") /\ CallOf(r)'.path = "refreshed")
                => /\ msTokens'[CallOf(r).userId] # NoValue
                   /\ msTokens'[CallOf(r).userId].value = CallOf(r).tokens
     /\ msTokens' # msTokens
          => \E r \in Slots :
               \/ MsStep(r, "put", "done")
               \/ GmtStep(r, "put", "done") /\ CallOf(r)'.path = "refreshed"]_vars

C20_Witness ==
  \E r \in Slots :
    /\ req[r].kind = "ms_callback" /\ req[r].pc = "done" /\ req[r].kvWrites = 1
    /\ req[r].tokenResponse.expires_in = 0
    /\ msTokens[req[r].userId] # NoValue
    /\ msTokens[req[r].userId].value = req[r].tokenData
    /\ req[r].tokenData.expiresAt = now

\* A request waits for the answer of a provider.
AwaitsProvider(r) ==
  \/ req[r].kind = "ms_callback" /\ req[r].pc \in {"exchange", "userinfo"}
  \/ req[r].kind = "gh_callback" /\ req[r].pc \in {"exchange", "user"}
  \/ CallOf(r).pc = "refresh"

\* C21 as stated: every request that waits for a provider (token exchange,
\* refresh grant, identity lookup) eventually returns to its caller, also
\* when the provider never answers.
C21_ProviderCallsReturn ==
  \A r \in Slots : AwaitsProvider(r) ~> Free(r)

\* A required secret is missing from the configuration.
MissingSecret(e) ==
  \/ e.COOKIE_ENCRYPTION_KEY = Undefined
  \/ e.GITHUB_CLIENT_SECRET = Undefined
  \/ e.MS_CLIENT_SECRET = Undefined

\* C22 as stated: when a required secret is missing no authorize handler
\* issues a redirect or renders the consent dialog, and nothing is written to
\* the store.
C22_NoTrafficWithoutSecrets ==
  MissingSecret(env)
    => /\ served # NoValue
            => /\ ~Redirects(served)
               /\ served.body \notin {"renderApprovalDialog", "redirectToMicrosoft"}
       /\ \A n \in NonceIds : msState[n] = NoValue
       /\ \A u \in Owners : msTokens[u] = NoValue

\* The values that must not be logged: the secrets of the bindings, the
\* primary provider's access token and every access and refresh token of the
\* secondary provider, stored or issued.
SecretValues ==
  {env.COOKIE_ENCRYPTION_KEY, env.GITHUB_CLIENT_SECRET, env.MS_CLIENT_SECRET, "gh-token"}
    \cup {AccessTok(n) : n \in 0 .. MaxGrants + 1}
    \cup {RefreshTok(n) : n \in 0 .. MaxGrants + 1}
\* What the request of slot r and its getMicrosoftTokens call have logged.
LogOf(r) ==
  (IF req[r].kind \in {"ms_callback", "gh_callback"} THEN req[r].log ELSE {})
    \cup (IF CallOf(r) # NoCall THEN CallOf(r).log ELSE {})

\* C23: nothing that a callback, an authorize redirect or a getMicrosoftTokens
\* call has logged, on the paths that succeed and on the paths that fail, is a
\* client secret, an access token or a refresh token.
C23_NoSecretInLogs ==
  /\ \A r \in Slots : LogOf(r) \cap SecretValues = {}
  /\ served # NoValue => served.log \cap SecretValues = {}

C23_Witness ==
  \E r \in Slots :
    /\ req[r].kind = "gh_callback" /\ req[r].pc = "done"
    /\ req[r].completions = 1
    /\ req[r].accessToken \in SecretValues
    /\ CallOf(r).path = "refresh_failed"
    /\ CallOf(r).tokens.refreshToken \in SecretValues
    /\ "Successfully got access token" \in LogOf(r)
    /\ "Failed to refresh Microsoft token" \in LogOf(r)

\* C24 as stated: when the token endpoint answers the code exchange with a
\* non-success status, the callback (primary or secondary) answers with that
\* upstream status, and no identity lookup, completion or token-record write
\* follows.
C24_ExchangeFailureCarriesUpstreamStatus ==
  \A r \in Slots :
    (req[r].kind \in {"gh_callback", "ms_callback"} /\ req[r].exchange = "failed")
      => /\ req[r].pc = "done"
         /\ req[r].status \in UpstreamStatuses
         /\ req[r].identity = "none"
         /\ req[r].kind = "gh_callback" => req[r].completions = 0
         /\ req[r].kind = "ms_callback" => req[r].kvWrites = 0

\* The tools that are for the logins of a module's ALLOWED_USERNAMES.
FirecrawlTools == {"crawlWebsite", "crawlJobStatus", "scrapePage", "mapWebsite", "searchWeb"}

\* C25: executeDatabase, sendEmail and the Firecrawl tools are registered only
\* for a login in the allowed-usernames set of their module; listTables,
\* queryDatabase and analyzeDatabase are registered for every login.
C25_RegistrationGatedByLogin ==
  Served("registerAllTools")
    => /\ {"listTables", "queryDatabase", "analyzeDatabase"} \subseteq served.tools
       /\ "executeDatabase" \in served.tools => served.login \in ALLOWED_USERNAMES
       /\ "sendEmail" \in served.tools => served.login \in EMAIL_ALLOWED_USERNAMES
       /\ served.tools \cap FirecrawlTools # {}
            => served.login \in FIRECRAWL_ALLOWED_USERNAMES

C25_Witness ==
  /\ Served("registerAllTools")
  /\ served.login = "pimmetjeoss"
  /\ served.tools = {"listTables", "queryDatabase", "analyzeDatabase", "sequentialthinking"}

\* C26: queryDatabase sends a text to the database only when validateSqlQuery
\* accepts it and isWriteOperation says it is no write, and then sends that
\* text once; in every other case it answers with an error response and
\* nothing is sent.
C26_QueryDatabaseReadOnly ==
  \A r \in Slots :
    req[r].kind = "queryDatabase"
      => /\ req[r].sent # <<>>
              => /\ validateSqlQuery(req[r].sql).isValid
                 /\ ~isWriteOperation(req[r].sql)
                 /\ req[r].sent = <<req[r].sql.text>>
         /\ (~validateSqlQuery(req[r].sql).isValid \/ isWriteOperation(req[r].sql))
              => /\ req[r].pc = "done"
                 /\ req[r].isError
                 /\ req[r].sent = <<>>

C26_Witness ==
  \E r \in Slots :
    /\ req[r].kind = "queryDatabase" /\ req[r].pc = "done"
    /\ ~req[r].isError
    /\ req[r].sent = <<"SELECT * FROM users">>

\* A withRetry in slot r goes from one position to the next.
RetryStep(r, from, to) ==
  /\ req'[r] # req[r]
  /\ req[r].kind = "withRetry" /\ req[r].pc = from
  /\ req'[r].kind = "withRetry" /\ req'[r].pc = to

\* C27: withRetry calls its operation at most 3 times; it calls it again only
\* after a rate-limit error and a delay; any other error, and the error of the
\* third attempt, is thrown on without a further call; the result of the
\* first attempt that succeeds is returned without a further call; and when
\* the operation terminates, withRetry does.
C27_AtMostThreeAttempts ==
  /\ [][\A r \in Slots :
          /\ req'[r].kind = "withRetry"
                => req'[r].calls <= 3 /\ req'[r].calls = req'[r].attempt
          /\ RetryStep(r, "operation", "delay")
                => /\ isRateLimit(req'[r].error)
                   /\ req[r].attempt < 3
                   /\ req'[r].calls = req[r].calls
          /\ RetryStep(r, "delay", "operation")
                => /\ req'[r].calls = req[r].calls + 1
                   /\ Len(req'[r].waited) = Len(req[r].waited) + 1
          /\ RetryStep(r, "operation", "done")
                => /\ req'[r].calls = req[r].calls
                   /\ req'[r].outcome \in {"returned", "thrown"}
                   /\ req'[r].outcome = "thrown"
                        => ~isRateLimit(req'[r].error) \/ req[r].attempt = 3
          /\ req[r].kind = "withRetry"
                => ~RetryStep(r, "operation", "operation")
                   /\ ~RetryStep(r, "delay", "delay") /\ ~RetryStep(r, "delay", "done")]_vars
  /\ \A r \in Slots :
        (req[r].kind = "withRetry" /\ req[r].pc # "done")
          ~> (req[r].kind = "withRetry" /\ req[r].pc = "done")

C27_Witness ==
  \E r \in Slots :
    /\ req[r].kind = "withRetry" /\ req[r].pc = "done"
    /\ req[r].outcome = "thrown"
    /\ isRateLimit(req[r].error)
    /\ req[r].calls = 3
    /\ req[r].waited = <<1000, 2000>>

\* C28: within one attempt the state is consumed before the token exchange
\* starts (decoded in the primary callback; read and deleted from the store in
\* the secondary callback), and the token exchange has finished with success
\* before what follows it starts: the user lookup, getMicrosoftTokens and
\* completeAuthorization in the primary callback, the profile request and the
\* token-record write in the secondary one.
C28_ConsumeThenExchangeThenComplete ==
  \A r \in Slots :
    /\ req[r].kind = "gh_callback"
         => /\ req[r].exchange # "none"
                 => req[r].decoded /\ req[r].oauthReqInfo # NoValue
            /\ (req[r].pc \in {"user", "call"} \/ req[r].identity # "none"
                  \/ req[r].call # NoCall \/ req[r].completions > 0)
                 => req[r].exchange = "ok"
    /\ req[r].kind = "ms_callback"
         => /\ req[r].exchange # "none"
                 => /\ req[r].stateFound
                    /\ req[r].state \in consumed
                    /\ KvGet(msState, req[r].state, now) = NoValue
            /\ (req[r].pc \in {"userinfo", "put"} \/ req[r].identity # "none"
                  \/ req[r].tokenData # NoValue \/ req[r].kvWrites > 0)
                 => req[r].exchange = "ok"

C28_Witness ==
  \E r \in Slots :
    /\ req[r].kind = "ms_callback" /\ req[r].pc = "put"
    /\ req[r].exchange = "ok"
    /\ req[r].state \in consumed
    /\ msState[req[r].state] = NoValue
    /\ req[r].kvWrites = 0

InsideMargin(call, t) ==
  /\ call.stored # NoValue
  /\ call.stored.refreshToken # Undefined
  /\ t > call.stored.expiresAt - RefreshMarginMs

\* C30 as stated: a getMicrosoftTokens call can start for any owner whatever
\* the other calls are doing; a call that starts while the stored record is
\* inside the margin sends its own refresh grant, also when another call for
\* the same owner is waiting for its grant, and both have sent the same
\* refresh token.
C30_Original ==
  /\ [](\A r \in Slots, u \in Owners : FreeSlot(r) => ENABLED getMicrosoftTokens(r, u))
  /\ [][\A r \in Slots :
          (Starts(r) /\ InsideMargin(CallOf(r)', now))
            => /\ CallOf(r)'.pc = "refresh"
               /\ CallOf(r)'.refreshCalls = 1
               /\ \A q \in Slots \ {r} :
                    (CallOf(q).pc = "refresh" /\ CallOf(q).userId = CallOf(r)'.userId)
                      => /\ CallOf(q)' = CallOf(q)
                         /\ CallOf(q).refreshCalls = 1
                         /\ CallOf(q).tokens.refreshToken =
                              CallOf(r)'.tokens.refreshToken]_vars

\* C30 amended: nothing coordinates the refreshes of one owner.  A call can
\* start whatever the other calls are doing; a call that starts while the
\* stored record is inside the margin sends its own refresh grant with the
\* refresh token of the record it has read, also when another call for the
\* same owner is waiting for its grant.  The two have sent the same refresh
\* token when no call has written the record between their reads; after such
\* a write the later call sends the new refresh token.
C30_NoSingleFlight ==
  /\ [](\A r \in Slots, u \in Owners : FreeSlot(r) => ENABLED getMicrosoftTokens(r, u))
  /\ [][\A r \in Slots :
          (Starts(r) /\ InsideMargin(CallOf(r)', now))
            => /\ CallOf(r)'.pc = "refresh"
               /\ CallOf(r)'.refreshCalls = 1
               /\ CallOf(r)'.stored = msTokens[CallOf(r)'.userId].value
               /\ CallOf(r)'.tokens.refreshToken = CallOf(r)'.stored.refreshToken
               /\ \A q \in Slots \ {r} :
                    (CallOf(q).pc = "refresh" /\ CallOf(q).userId = CallOf(r)'.userId)
                      => /\ CallOf(q)' = CallOf(q)
                         /\ CallOf(q).refreshCalls = 1
                         /\ CallOf(q).tokens.refreshToken = CallOf(q).stored.refreshToken
                         /\ CallOf(q).stored = msTokens[CallOf(q).userId].value
                              => CallOf(q).tokens.refreshToken =
                                   CallOf(r)'.tokens.refreshToken]_vars

C30_Witness ==
  \E r1, r2 \in Slots :
    /\ r1 # r2
    /\ CallOf(r1).pc = "refresh" /\ CallOf(r2).pc = "refresh"
    /\ CallOf(r1).userId = CallOf(r2).userId
    /\ CallOf(r1).refreshCalls = 1 /\ CallOf(r2).refreshCalls = 1
    /\ CallOf(r1).tokens.refreshToken = CallOf(r2).tokens.refreshToken
    /\ CallOf(r1).tokens.refreshToken # Undefined

\* The provider numbers its token responses in the order it issues them.
IssueNo(accessToken) == CHOOSE n \in 0 .. grants : AccessTok(n) = accessToken

\* No call for an owner is waiting for its grant or its write.
Quiet(userId) ==
  \A q \in Slots : ~(CallOf(q).pc \in {"refresh", "put"} /\ CallOf(q).userId = userId)

\* C31: when the last of several overlapping getMicrosoftTokens calls for an
\* owner has written its refreshed record (the record in the store is no
\* longer the one the call had read: another call has refreshed and written
\* meanwhile), the store holds the tokens the provider issued last: the
\* write does not replace a record whose access token was issued later.
C31_LastIssuedTokensStored ==
  [][\A r \in Slots :
       (/\ GmtStep(r, "put", "done")
        /\ CallOf(r)'.path = "refreshed"
        /\ Quiet(CallOf(r).userId)'
        /\ msTokens[CallOf(r).userId].value # CallOf(r).stored)
         => IssueNo(msTokens[CallOf(r).userId].value.accessToken)
              < IssueNo(CallOf(r).newTokens.access_token)]_vars

\* The request of slot r acts on the pending state n in this step: the
\* callback's delete of the state it has read.
DeletesState(r, n) == MsStep(r, "delete", "exchange") /\ req[r].state = n

\* The request of slot r writes the token record of owner u in this step:
\* the callback's put under the owner of its pending state, or the put of a
\* getMicrosoftTokens call for u.
WritesTokens(r, u) ==
  \/ MsStep(r, "put", "done") /\ req[r].userId = u
  \/ GmtStep(r, "put", "done") /\ CallOf(r).userId = u

\* C32: unrelated attempts do not contend on the store.  A step changes the
\* pending-state entry of a nonce only when it is the authorize request that
\* has generated that nonce or a callback that carries it, and the token
\* record of an owner only when it is a callback whose pending state names
\* that owner or a getMicrosoftTokens call for that owner; every other entry
\* is left as it was.  What a request reads is the entry under its own key:
\* the callback's pending owner is the one stored under its state, and a
\* getMicrosoftTokens call starts from the record of its owner.
C32_UnrelatedEntriesUntouched ==
  [][/\ DOMAIN msState' = DOMAIN msState
     /\ DOMAIN msTokens' = DOMAIN msTokens
     /\ \A n \in DOMAIN msState :
          msState'[n] # msState[n]
            => \/ /\ served' # NoValue
                  /\ served'.handler = "GET /microsoft/authorize"
                  /\ served'.state = n
                  /\ msState'[n].value.userId = served'.userId
               \/ \E r \in Slots : DeletesState(r, n) /\ msState'[n] = NoValue
     /\ \A u \in Owners :
          msTokens'[u] # msTokens[u] => \E r \in Slots : WritesTokens(r, u)
     /\ \A r \in Slots :
          /\ MsArrives(r) /\ req'[r].stateFound
               => req'[r].userId = msState[req'[r].state].value.userId
          /\ Starts(r) /\ CallOf(r)'.stored # NoValue
               => CallOf(r)'.stored = msTokens[CallOf(r)'.userId].value]_vars

\* A callback deletes its pending state while the earlier attempt's pending
\* state and another owner's token record are in the store and stay.
C32_Witness ==
  \E r \in Slots :
    /\ req[r].kind = "ms_callback" /\ req[r].pc = "exchange"
    /\ req[r].state # EarlierState
    /\ msState[req[r].state] = NoValue
    /\ msState[EarlierState] # NoValue
    /\ req[r].userId = "alice"
    /\ msTokens["bob"] # NoValue
    /\ \E q \in Slots : CallOf(q).pc = "put" /\ CallOf(q).userId = "bob"

\* C33: every write to the store carries an explicit TTL.  An entry that a
\* step writes under ms_oauth_state:<state> has expirationTtl 600 seconds,
\* and one written under ms_tokens:<userId>, by the callback's first
\* persistence or by a refresh, has expirationTtl 90 days; the entry is gone
\* that long after the write.
C33_EveryWriteCarriesItsTtl ==
  [][/\ \A n \in DOMAIN msState :
          (msState'[n] # msState[n] /\ msState'[n] # NoValue)
            => /\ msState'[n].expirationTtl = 600
               /\ msState'[n].expiration = now \div 1000 + 600
     /\ \A u \in DOMAIN msTokens :
          (msTokens'[u] # msTokens[u] /\ msTokens'[u] # NoValue)
            => /\ msTokens'[u].expirationTtl = 90 * 24 * 60 * 60
               /\ msTokens'[u].expiration = now \div 1000 + 90 * 24 * 60 * 60
     /\ \A r \in Slots :
          (MsStep(r, "put", "done") \/ (GmtStep(r, "put", "done")
                                          /\ CallOf(r)'.path = "refreshed"))
            => \E u \in Owners : msTokens'[u] # msTokens[u]]_vars

\* A refresh has just written bob's record while a pending state written by
\* GET /microsoft/authorize is in the store.
C33_Witness ==
  /\ \E r \in Slots : CallOf(r).pc = "done" /\ CallOf(r).path = "refreshed"
                        /\ CallOf(r).userId = "bob"
  /\ msTokens["bob"] # NoValue
  /\ msTokens["bob"].value.accessToken # AccessTok(0)
  /\ msTokens["bob"].expirationTtl = 90 * 24 * 60 * 60
  /\ msState[Nonce(1)] # NoValue
  /\ msState[Nonce(1)].expirationTtl = 600

\* The store has a live entry under ms_oauth_state:<state>.
Pending(state) == KvGet(msState, state, now) # NoValue

\* C34: no pending state stays in the store forever.  Every entry that GET
\* /microsoft/authorize has written is removed in the end: a callback
\* deletes it, or its ten minutes pass, also when no callback ever comes and
\* when the callback only brings the provider's error.
C34_PendingStateEventuallyRemoved ==
  \A n \in NonceIds : Pending(n) ~> ~Pending(n)

\* A pending state that no callback has consumed has expired.
C34_Witness ==
  /\ nonces > 0
  /\ consumed = {}
  /\ msState[Nonce(1)] # NoValue
  /\ ~Pending(Nonce(1))

\* C35: on a successful primary callback the payload handed to
\* completeAuthorization carries the authorization request decoded from the
\* state parameter as it is, its scope, userId equal to the login the
\* provider gave, and the three Microsoft token props equal to the fields of
\* the record that getMicrosoftTokens returned for that login; the three
\* props are undefined when no record exists for the login.
C35_CompletionPayload ==
  \A r \in Slots :
    (req[r].kind = "gh_callback" /\ req[r].completions > 0)
      => LET payload == req[r].completed
             call == req[r].call
         IN /\ payload.request = DecodeState(req[r].stateParam).value.obj
            /\ payload.scope = payload.request.scope
            /\ payload.userId = req[r].login
            /\ payload.props.login = req[r].login
            /\ call.pc = "done" /\ call.userId = req[r].login
            /\ call.path = "absent" <=> call.result = NoValue
            /\ IF call.result = NoValue
               THEN /\ payload.props.microsoftAccessToken = Undefined
                    /\ payload.props.microsoftRefreshToken = Undefined
                    /\ payload.props.microsoftTokenExpiry = Undefined
               ELSE /\ payload.props.microsoftAccessToken = call.result.accessToken
                    /\ payload.props.microsoftRefreshToken = call.result.refreshToken
                    /\ payload.props.microsoftTokenExpiry = call.result.expiresAt

\* A primary callback for alice has completed with the record that
\* getMicrosoftTokens refreshed on the way.
C35_Witness ==
  \E r \in Slots :
    /\ req[r].kind = "gh_callback" /\ req[r].completions = 1
    /\ req[r].login = "alice"
    /\ req[r].call.path = "refreshed"
    /\ req[r].completed.userId = "alice"
    /\ req[r].completed.request = ValidRequest
    /\ req[r].completed.props.microsoftAccessToken = AccessTok(1)

\* No other slot has a getMicrosoftTokens call in progress for the owner of
\* the call that slot r ends in this step, before the step or after it.
Alone(r) ==
  \A q \in Slots \ {r} :
    /\ CallOf(q).pc \in {"none", "done"} \/ CallOf(q).userId # CallOf(r)'.userId
    /\ CallOf(q)'.pc \in {"none", "done"} \/ CallOf(q)'.userId # CallOf(r)'.userId

\* C36: when a getMicrosoftTokens call returns a record and no other call
\* for the same owner has overlapped it (none is in progress, and the store
\* holds what the call read or what the call itself wrote), the accessToken,
\* refreshToken and expiresAt returned are those of the record in the store
\* at that moment, on every path, the refresh whose write fails included.
C36_ReturnedEqualsStored ==
  [][\A r \in Slots :
       (/\ Returns(r)
        /\ CallOf(r)'.result # NoValue
        /\ Alone(r)
        /\ msTokens[CallOf(r)'.userId].value = CallOf(r)'.stored)
         => CallOf(r)'.result = ReturnValue(msTokens'[CallOf(r)'.userId].value)]_vars

\* The callback of slot r ends in this step because the token exchange or
\* the identity lookup has failed.
FailsAfterConsume(r) ==
  /\ req[r].kind = "ms_callback" /\ req[r].pc \in {"exchange", "userinfo"}
  /\ req'[r].kind = "ms_callback" /\ req'[r].pc = "done"
  /\ req'[r].exchange = "failed" \/ req'[r].identity = "failed"

\* C37: the secondary callback deletes the pending state it has read before
\* it sends the code to the token endpoint, and the state stays deleted: when
\* the exchange or the identity lookup fails, the attempt writes no token
\* record and does not put the state back, and a callback that comes with a
\* consumed state is rejected without an exchange.
C37_ConsumedStateStaysDeleted ==
  /\ [](\A n \in consumed : msState[n] = NoValue)
  /\ [](\A r \in Slots :
          (req[r].kind = "ms_callback" /\ req[r].exchange # "none")
            => req[r].state \in consumed /\ msState[req[r].state] = NoValue)
  /\ [][\A r \in Slots :
          /\ MsStep(r, "delete", "exchange")
               => /\ req[r].exchange = "none" /\ req'[r].exchange = "sent"
                  /\ msState'[req[r].state] = NoValue
          /\ FailsAfterConsume(r)
               => /\ msTokens' = msTokens /\ msState' = msState
                  /\ req'[r].kvWrites = 0
                  /\ req'[r].status = 500
          /\ (MsArrives(r) /\ req'[r].state \in consumed
                /\ ~Falsy(req'[r].code) /\ Falsy(req'[r].error))
               => /\ req'[r].pc = "done" /\ req'[r].status = 500
                  /\ req'[r].body = "Invalid or expired state parameter"
                  /\ req'[r].exchange = "none"]_vars

\* A callback has consumed its state and its exchange has failed: the state
\* is gone and no token record has been written.
C37_Witness ==
  \E r \in Slots :
    /\ req[r].kind = "ms_callback" /\ req[r].pc = "done"
    /\ req[r].exchange = "failed" /\ req[r].status = 500
    /\ req[r].state \in consumed
    /\ msState[req[r].state] = NoValue
    /\ \A u \in Owners : msTokens[u] = NoValue

\* The recipient lists of EmailArgs in which every address is well-formed.
WellFormedTo == {Address, Address \o <<",", " ">> \o Address}
WellFormedCc == {<<>>, Address}
WellFormedBcc == {<<>>}

\* C38: sendEmail posts to the Graph sendMail endpoint only when it has an
\* access token, that of the session props or else that of the record
\* getMicrosoftTokens returned for the login or, after a null, for its
\* lowercase form; when the expiry that goes with the token, if known, has
\* not passed; and when every address of to, cc and bcc is well-formed.  It
\* posts at most once, and a call that has not posted ends with an error
\* response.
C38_SendOnlyWithTokenAndGoodAddresses ==
  \A r \in Slots :
    req[r].kind = "sendEmail"
      => LET rq == req[r] IN
         /\ rq.sent \in {0, 1}
         /\ rq.pc = "fetch" => rq.sent = 1
         /\ (rq.pc = "done" /\ rq.sent = 0) => rq.isError
         /\ (rq.pc = "done" /\ ~rq.isError) => rq.sent = 1
         /\ rq.sent = 1
              => /\ ~Falsy(rq.bearer)
                 /\ IF ~Falsy(rq.props.microsoftAccessToken)
                    THEN /\ rq.bearer = rq.props.microsoftAccessToken
                         /\ rq.tokenExpiry = rq.props.microsoftTokenExpiry
                         /\ rq.lookups = <<>>
                    ELSE /\ rq.call.pc = "done" /\ rq.call.result # NoValue
                         /\ rq.bearer = rq.call.result.accessToken
                         /\ rq.tokenExpiry = Some(rq.call.result.expiresAt)
                         /\ rq.lookups \in {<<rq.login>>, <<rq.login, toLowerCase(rq.login)>>}
                         /\ rq.call.userId = rq.lookups[Len(rq.lookups)]
                 /\ rq.tokenExpiry # NoNumber => now <= rq.tokenExpiry[1]
                 /\ rq.to \in WellFormedTo
                 /\ rq.cc \in WellFormedCc
                 /\ rq.bcc \in WellFormedBcc

\* The props had no token, the login had no record, the record of the
\* lowercase login was refreshed, and the message to two recipients has been
\* sent.
C38_Witness ==
  \E r \in Slots :
    /\ req[r].kind = "sendEmail" /\ req[r].pc = "done"
    /\ ~req[r].isError /\ req[r].sent = 1
    /\ req[r].lookups = <<"Pimmetjeoss", "pimmetjeoss">>
    /\ req[r].call.path = "refreshed"
    /\ req[r].bearer = AccessTok(1)
    /\ req[r].recipients = <<Address, Address>>

\* The step is a sequentialthinking call of the user.
ThinkingCallBy(login) ==
  /\ served' # NoValue
  /\ served'.handler = "sequentialthinking"
  /\ served'.login = login

\* C39: on one SequentialThinkingState, which starts empty, every
\* sequentialthinking call appends exactly one thought, the one it was given,
\* to the history of the calling user and leaves the history and the
\* branches of every other user as they were; no other step changes the
\* state; the thoughtHistoryLength a call reports is the length of the
\* caller's history, one more than before the call.  So the length reported
\* to a user is the number of thoughts that user has added.
C39_OneThoughtPerCallOwnHistoryOnly ==
  /\ \A u \in ThinkingLogins : getUserThoughts(thinking, u) = <<>>
  /\ [][/\ (\A u \in ThinkingLogins : ~ThinkingCallBy(u)) => thinking' = thinking
        /\ \A u \in ThinkingLogins :
             ThinkingCallBy(u)
               => LET before == getUserThoughts(thinking, u)
                      after == getUserThoughts(thinking', u)
                  IN /\ Len(after) = Len(before) + 1
                     /\ SubSeq(after, 1, Len(before)) = before
                     /\ after[Len(after)].thought = "t"
                     /\ ~served'.isError
                          => /\ served'.thoughtHistoryLength = Len(before) + 1
                             /\ served'.thoughtNumber = after[Len(after)].thoughtNumber
                     /\ \A v \in ThinkingLogins \ {u} :
                          /\ getUserThoughts(thinking', v) = getUserThoughts(thinking, v)
                          /\ getUserBranches(thinking', v) = getUserBranches(thinking, v)
                          /\ MapHas(thinking'.thoughtHistory, v)
                               = MapHas(thinking.thoughtHistory, v)]_vars

\* alice's second thought has been answered with length 2 while the other
\* user has one thought and a branch.
C39_Witness ==
  /\ served # NoValue /\ served.handler = "sequentialthinking"
  /\ served.login = "alice" /\ ~served.isError
  /\ served.thoughtHistoryLength = 2
  /\ Len(getUserThoughts(thinking, "Pimmetjeoss")) = 1
  /\ DOMAIN getUserBranches(thinking, "Pimmetjeoss") = {"b1"}
  /\ served.branches = {}

\* The thoughts of a sequence, as a set.
Thoughts(seq) == {seq[i] : i \in DOMAIN seq}

\* C40: in every state of a SequentialThinkingState each stored thought has
\* thoughtNumber <= totalThoughts, every thought on a branch list of a user
\* is in that user's history, and a branch id is a key of a user's branches
\* only if the user's history has a thought with a branch point and that
\* branch id.
C40_ThinkingStateInvariant ==
  /\ \A u \in DOMAIN thinking.thoughtHistory :
       \A t \in Thoughts(thinking.thoughtHistory[u]) : t.thoughtNumber <= t.totalThoughts
  /\ \A u \in DOMAIN thinking.branches :
       \A b \in DOMAIN thinking.branches[u] :
         /\ Thoughts(thinking.branches[u][b]) \subseteq Thoughts(getUserThoughts(thinking, u))
         /\ \A t \in Thoughts(thinking.branches[u][b]) :
              t.thoughtNumber <= t.totalThoughts /\ t.branchId = b
         /\ \E t \in Thoughts(getUserThoughts(thinking, u)) :
              t.branchFromThought # NoNumber /\ t.branchId = b

\* A user has a branch with a thought whose totalThoughts was raised to its
\* thoughtNumber, and has added a thought with a branch id and no branch
\* point, which is on no branch.
C40_Witness ==
  \E u \in ThinkingLogins :
    /\ MapHas(thinking.branches, u)
    /\ DOMAIN thinking.branches[u] = {"b2"}
    /\ \E t \in Thoughts(thinking.branches[u]["b2"]) :
         t.thoughtNumber = 2 /\ t.totalThoughts = 2
    /\ \E t \in Thoughts(getUserThoughts(thinking, u)) :
         t.branchFromThought = NoNumber /\ t.branchId = "b1"

====
